---------------------------- MODULE Spec2Model ----------------------------
(***************************************************************************)
(* Model of the URL fetcher MCP server (mcp-url-fetcher).                  *)
(*                                                                         *)
(* JavaScript strings are modelled as sequences of one-character strings,  *)
(* so that includes / endsWith / trim / split / replace are computed on    *)
(* characters exactly as the code computes them.                           *)
(***************************************************************************)
EXTENDS Integers, Sequences, FiniteSets, TLC

VARIABLES
    server,         \* which build runs: "playwright" (the Playwright server) or "static" (src/index.ts)
    contentType,    \* declared media type handed to detectContentType
    url,            \* origin URL
    content,        \* retrieved text
    detectedType,   \* result of detectContentType, or Pending
    sourceType,     \* the sourceType argument of the converters
    now,            \* wall clock read by new Date(), in seconds
    xmlParsed,      \* what xmlParser.parse(content) does for this payload
    page,           \* what the HTML libraries compute for this payload
    op,             \* the converter being applied: json, html, markdown, text, or none
    passes,         \* number of times the converter has been applied
    original,       \* the content handed to the first application
    out,            \* the converter's result: returned text or thrown error
    recentUrls,     \* const recentUrls: the recorded fetches, newest first
    browserInstance,\* let browserInstance: the cached browser, or Null (its engine where calls
                    \* run one after the other, its handle where they interleave)
    browserContext, \* let browserContext: the cached context, or Null
    request,        \* the arguments of the tool call being answered
    response,       \* whether the retrieval of the call resolved, and with a screenshot
    result,         \* what the tool handler returned to the client
    calls,          \* number of tool calls answered so far
    varied,         \* number of those calls that were not the plain call
    tasks,          \* the calls of fetchUrlWithPlaywright in flight, each at one of its awaits
    browsers,       \* the browsers launched so far: engine, and whether still open
    contexts,       \* the contexts created so far: their browser, and whether still open
    pages,          \* the pages opened so far: their context, and whether still open
    handlers,       \* the SIGINT / SIGTERM handlers, each at one of its awaits
    exited          \* process.exit has been called

payload == <<server, contentType, url, content>>

conv == <<sourceType, now, xmlParsed, page, op, passes, original, out>>

\* the module-level state of the server, shared by all tool calls, and the
\* tool call being answered
playwright == <<tasks, browsers, contexts, pages, handlers, exited>>

toolState == <<recentUrls, browserInstance, browserContext,
               request, response, result, calls, varied, playwright>>

vars == <<server, contentType, url, content, detectedType,
          sourceType, now, xmlParsed, page, op, passes, original, out,
          recentUrls, browserInstance, browserContext, request, response, result, calls, varied,
          tasks, browsers, contexts, pages, handlers, exited>>

Pending == "pending"

-----------------------------------------------------------------------------
(* Bounds of the model *)

MaxTypeParts == 2
MaxUrlParts == 2
MaxContentParts == 3
MaxJsonParts == 3
MaxPasses == 2
MaxClock == 1
MaxRows == 60
MaxCalls == 11
MaxVaried == 1
MaxTasks == 2
MaxRequests == 2
MaxSignals == 1

-----------------------------------------------------------------------------
(* String primitives (String.prototype.* on character sequences) *)

\* U+0020, line feed, tab, carriage return: the white space of the modelled alphabet
\* the grave accent (U+0060), which a string of this language cannot hold: the
\* one character is written as this token wherever it occurs
Grave == "grave"

WhiteSpace == {" ", "\n", "\t", "\r"}

StartsWith(s, p) == Len(p) <= Len(s) /\ SubSeq(s, 1, Len(p)) = p

EndsWith(s, p) == Len(p) <= Len(s) /\ SubSeq(s, Len(s) - Len(p) + 1, Len(s)) = p

Includes(s, p) == \E i \in 0..(Len(s) - Len(p)) : SubSeq(s, i + 1, i + Len(p)) = p

\* String.prototype.trim
Trim(s) ==
    LET keep == {i \in 1..Len(s) : s[i] \notin WhiteSpace}
    IN  IF keep = {} THEN << >>
        ELSE LET lo == CHOOSE i \in keep : \A j \in keep : i <= j
                 hi == CHOOSE i \in keep : \A j \in keep : j <= i
             IN  SubSeq(s, lo, hi)

\* String.prototype.split with a one-character separator
Split(s, sep) ==
    LET seps == SelectSeq([i \in 1..Len(s) |-> i], LAMBDA i : s[i] = sep)
        \* the position of the k-th separator; 0 and Len(s) + 1 bound the string
        at(k) == IF k = 0 THEN 0 ELSE IF k > Len(seps) THEN Len(s) + 1 ELSE seps[k]
    IN  [k \in 1..(Len(seps) + 1) |-> SubSeq(s, at(k - 1) + 1, at(k) - 1)]

\* (line.match(/,/g) || []).length
CountChar(s, c) == Cardinality({i \in 1..Len(s) : s[i] = c})

\* all concatenations of at most n fragments of F
RECURSIVE Concats(_, _)
Concats(F, n) ==
    IF n = 0 THEN {<< >>}
    ELSE LET shorter == Concats(F, n - 1)
         IN  shorter \cup {p \o f : p \in shorter, f \in F}

-----------------------------------------------------------------------------
(* String constants of detectContentType *)

Kw ==
    [json |->
        <<"j","s","o","n">>,
     html |->
        <<"h","t","m","l">>,
     markdown |->
        <<"m","a","r","k","d","o","w","n">>,
     md |->
        <<"m","d">>,
     xml |->
        <<"x","m","l">>,
     csv |->
        <<"c","s","v">>]

Ext ==
    [json |->
        <<".","j","s","o","n">>,
     html |->
        <<".","h","t","m","l">>,
     htm |->
        <<".","h","t","m">>,
     md |->
        <<".","m","d">>,
     markdown |->
        <<".","m","a","r","k","d","o","w","n">>,
     xml |->
        <<".","x","m","l">>,
     csv |->
        <<".","c","s","v">>]

Marker ==
    [tagHtmlClose |->
        <<"<","/","h","t","m","l",">">>,
     xmlDecl |->
        <<"<","?","x","m","l">>,
     selfClose |->
        <<"/",">">>]

-----------------------------------------------------------------------------
(* JSON.parse and JSON.stringify (ECMAScript built-ins used by the code).    *)
(* Values: number, string, true/false/null, array, object.  An object keeps  *)
(* its members in JavaScript property order.  Numbers are the integers: the  *)
(* modelled alphabet has no fraction or exponent characters.                 *)

JNum(n) == [t |-> "number", n |-> n]
JStr(s) == [t |-> "string", s |-> s]
JLit(name) == [t |-> name]
JArr(items) == [t |-> "array", items |-> items]
JObj(members) == [t |-> "object", members |-> members]

Digits == <<"0", "1", "2", "3", "4", "5", "6", "7", "8", "9">>

IsDigit(c) == \E d \in 1..Len(Digits) : Digits[d] = c

DigitVal(c) == (CHOOSE d \in 1..Len(Digits) : Digits[d] = c) - 1

RECURSIVE NatOf(_)
NatOf(ds) ==
    IF ds = << >> THEN 0
    ELSE NatOf(SubSeq(ds, 1, Len(ds) - 1)) * 10 + DigitVal(ds[Len(ds)])

RECURSIVE NatToStr(_)
NatToStr(n) ==
    IF n < 10 THEN <<Digits[n + 1]>>
    ELSE NatToStr(n \div 10) \o <<Digits[(n % 10) + 1]>>

\* Number::toString of an integer; -0 prints as 0
NumToStr(n) == IF n < 0 THEN <<"-">> \o NatToStr(0 - n) ELSE NatToStr(n)

\* a canonical array index ("0", "1", "10", ...): such keys come first, ascending
IsArrayIndex(k) ==
    /\ k # << >>
    /\ \A i \in 1..Len(k) : IsDigit(k[i])
    /\ (k[1] = "0" => Len(k) = 1)

KeyBefore(k, m) ==
    IsArrayIndex(k) /\ (~IsArrayIndex(m) \/ NatOf(k) < NatOf(m))

\* obj[key] = value during JSON.parse: a repeated key keeps its place and takes
\* the last value; a new key is created in property order
SetMember(members, key, value) ==
    IF \E i \in 1..Len(members) : members[i].k = key
    THEN [i \in 1..Len(members) |->
            IF members[i].k = key THEN [k |-> key, v |-> value] ELSE members[i]]
    ELSE LET later == {i \in 1..Len(members) : KeyBefore(key, members[i].k)}
             at == IF later = {} THEN Len(members) + 1
                   ELSE CHOOSE i \in later : \A j \in later : i <= j
         IN  SubSeq(members, 1, at - 1) \o <<[k |-> key, v |-> value]>>
                \o SubSeq(members, at, Len(members))

ParseFail == [ok |-> FALSE, val |-> JLit("null"), pos |-> 0]

ParseOk(v, p) == [ok |-> TRUE, val |-> v, pos |-> p]

\* first position at or after i that holds no JSON white space
SkipWs(s, i) ==
    CHOOSE j \in i..(Len(s) + 1) :
        /\ (j = Len(s) + 1 \/ s[j] \notin WhiteSpace)
        /\ \A k \in i..(j - 1) : s[k] \in WhiteSpace

DigitsEnd(s, i) ==
    CHOOSE j \in i..(Len(s) + 1) :
        /\ (j = Len(s) + 1 \/ ~IsDigit(s[j]))
        /\ \A k \in i..(j - 1) : IsDigit(s[k])

HasAt(s, i, p) == i + Len(p) - 1 <= Len(s) /\ SubSeq(s, i, i + Len(p) - 1) = p

Unescape(c) ==
    CASE c = "n" -> "\n"
      [] c = "t" -> "\t"
      [] c = "r" -> "\r"
      [] OTHER -> c

\* the number of backslashes in a row that end just before position j, counted
\* no further back than position from
SlashRun(s, from, j) ==
    CHOOSE d \in 0..(j - from) :
        /\ (d = j - from \/ s[j - 1 - d] # "\\")
        /\ \A m \in 1..d : s[j - m] = "\\"

\* the character at j is the second character of an escape
IsEscaped(s, from, j) == SlashRun(s, from, j) % 2 = 1

\* the characters lo..hi of a string literal that starts at from, escapes resolved
RECURSIVE UnescapeIn(_, _, _, _)
UnescapeIn(s, from, lo, hi) ==
    IF lo > hi THEN << >>
    ELSE IF lo = hi
         THEN (IF IsEscaped(s, from, lo) THEN <<Unescape(s[lo])>>
               ELSE IF s[lo] = "\\" THEN << >>
               ELSE <<s[lo]>>)
    ELSE LET mid == (lo + hi) \div 2
         IN  UnescapeIn(s, from, lo, mid) \o UnescapeIn(s, from, mid + 1, hi)

\* the string literal whose first character is at position i, up to the closing
\* quote: the first quote that is not escaped
ScanString(s, i) ==
    LET closes == {j \in i..Len(s) : s[j] = "\"" /\ ~IsEscaped(s, i, j)}
    IN  IF closes = {} THEN ParseFail
        ELSE LET e == CHOOSE x \in closes : \A y \in closes : x <= y
                 legal == \A k \in i..(e - 1) :
                            IF IsEscaped(s, i, k)
                            THEN s[k] \in {"\"", "\\", "/", "n", "t", "r"}
                            ELSE s[k] \notin {"\n", "\t", "\r"}
             IN  IF legal THEN ParseOk(JStr(UnescapeIn(s, i, i, e - 1)), e + 1)
                 ELSE ParseFail

ParseNumber(s, i) ==
    LET neg == s[i] = "-"
        st == IF neg THEN i + 1 ELSE i
        run == DigitsEnd(s, st)
        en == IF run > st /\ s[st] = "0" THEN st + 1 ELSE run
        n == NatOf(SubSeq(s, st, en - 1))
    IN  IF en = st THEN ParseFail
        ELSE ParseOk(JNum(IF neg THEN 0 - n ELSE n), en)

RECURSIVE JsonValueAt(_, _), JsonMembersAt(_, _, _), JsonElementsAt(_, _, _)

JsonValueAt(s, i) ==
    IF i > Len(s) THEN ParseFail
    ELSE IF s[i] = "{"
         THEN LET j == SkipWs(s, i + 1)
              IN  IF j <= Len(s) /\ s[j] = "}" THEN ParseOk(JObj(<< >>), j + 1)
                  ELSE JsonMembersAt(s, j, << >>)
    ELSE IF s[i] = "["
         THEN LET j == SkipWs(s, i + 1)
              IN  IF j <= Len(s) /\ s[j] = "]" THEN ParseOk(JArr(<< >>), j + 1)
                  ELSE JsonElementsAt(s, j, << >>)
    ELSE IF s[i] = "\"" THEN ScanString(s, i + 1)
    ELSE IF s[i] = "-" \/ IsDigit(s[i]) THEN ParseNumber(s, i)
    ELSE IF HasAt(s, i, <<"t", "r", "u", "e">>) THEN ParseOk(JLit("true"), i + 4)
    ELSE IF HasAt(s, i, <<"f", "a", "l", "s", "e">>) THEN ParseOk(JLit("false"), i + 5)
    ELSE IF HasAt(s, i, <<"n", "u", "l", "l">>) THEN ParseOk(JLit("null"), i + 4)
    ELSE ParseFail

JsonMembersAt(s, j, acc) ==
    IF j > Len(s) \/ s[j] # "\"" THEN ParseFail
    ELSE LET key == ScanString(s, j + 1)
         IN  IF ~key.ok THEN ParseFail
             ELSE LET c == SkipWs(s, key.pos)
                  IN  IF c > Len(s) \/ s[c] # ":" THEN ParseFail
                      ELSE LET v == JsonValueAt(s, SkipWs(s, c + 1))
                           IN  IF ~v.ok THEN ParseFail
                               ELSE LET e == SkipWs(s, v.pos)
                                        acc2 == SetMember(acc, key.val.s, v.val)
                                    IN  IF e > Len(s) THEN ParseFail
                                        ELSE IF s[e] = "}" THEN ParseOk(JObj(acc2), e + 1)
                                        ELSE IF s[e] = ","
                                             THEN JsonMembersAt(s, SkipWs(s, e + 1), acc2)
                                        ELSE ParseFail

JsonElementsAt(s, j, acc) ==
    LET v == JsonValueAt(s, j)
    IN  IF ~v.ok THEN ParseFail
        ELSE LET e == SkipWs(s, v.pos)
                 acc2 == Append(acc, v.val)
             IN  IF e > Len(s) THEN ParseFail
                 ELSE IF s[e] = "]" THEN ParseOk(JArr(acc2), e + 1)
                 ELSE IF s[e] = "," THEN JsonElementsAt(s, SkipWs(s, e + 1), acc2)
                 ELSE ParseFail

\* JSON.parse(text): [ok |-> TRUE, val |-> value], or ok = FALSE where it throws
JsonParse(s) ==
    LET v == JsonValueAt(s, SkipWs(s, 1))
    IN  IF v.ok /\ SkipWs(s, v.pos) = Len(s) + 1 THEN [ok |-> TRUE, val |-> v.val]
        ELSE [ok |-> FALSE, val |-> JLit("null")]

\* QuoteJSONString
QuoteChar(c) ==
    CASE c = "\"" -> <<"\\", "\"">>
      [] c = "\\" -> <<"\\", "\\">>
      [] c = "\n" -> <<"\\", "n">>
      [] c = "\t" -> <<"\\", "t">>
      [] c = "\r" -> <<"\\", "r">>
      [] OTHER -> <<c>>

\* the characters lo..hi of s, each as QuoteJSONString writes it
RECURSIVE QuoteChars(_, _, _)
QuoteChars(s, lo, hi) ==
    IF lo > hi THEN << >>
    ELSE IF lo = hi THEN QuoteChar(s[lo])
    ELSE LET mid == (lo + hi) \div 2
         IN  QuoteChars(s, lo, mid) \o QuoteChars(s, mid + 1, hi)

Quote(s) == <<"\"">> \o QuoteChars(s, 1, Len(s)) \o <<"\"">>

\* SerializeJSONProperty with the given gap ("" or two spaces) at the given indent
RECURSIVE Serialize(_, _, _), SerializeItems(_, _, _, _)

Serialize(v, gap, indent) ==
    CASE v.t = "number" -> NumToStr(v.n)
      [] v.t = "string" -> Quote(v.s)
      [] v.t = "true" -> <<"t", "r", "u", "e">>
      [] v.t = "false" -> <<"f", "a", "l", "s", "e">>
      [] v.t = "null" -> <<"n", "u", "l", "l">>
      [] v.t = "array" ->
            IF v.items = << >> THEN <<"[", "]">>
            ELSE <<"[">> \o SerializeItems(v.items, FALSE, gap, indent \o gap)
                    \o (IF gap = << >> THEN << >> ELSE <<"\n">> \o indent) \o <<"]">>
      [] v.t = "object" ->
            IF v.members = << >> THEN <<"{", "}">>
            ELSE <<"{">> \o SerializeItems(v.members, TRUE, gap, indent \o gap)
                    \o (IF gap = << >> THEN << >> ELSE <<"\n">> \o indent) \o <<"}">>

SerializeItems(items, keyed, gap, stepback) ==
    LET first == Head(items)
        lead == IF gap = << >> THEN << >> ELSE <<"\n">> \o stepback
        text == IF keyed
                THEN Quote(first.k) \o <<":">> \o (IF gap = << >> THEN << >> ELSE <<" ">>)
                        \o Serialize(first.v, gap, stepback)
                ELSE Serialize(first, gap, stepback)
    IN  lead \o text
            \o (IF Len(items) = 1 THEN << >>
                ELSE <<",">> \o SerializeItems(Tail(items), keyed, gap, stepback))

Gap2 == <<" ", " ">>

\* JSON.stringify(value, null, 2)
JsonStringify2(v) == Serialize(v, Gap2, << >>)

\* JSON.stringify(value)
JsonStringify(v) == Serialize(v, << >>, << >>)

-----------------------------------------------------------------------------
(* detectContentType *)

None == "none"

Families == {"json", "html", "markdown", "xml", "csv", "text"}

\* mutant: the xml test placed before the html test
HeaderFamily_XmlFirst(ct) ==
    IF Includes(ct, Kw.json) THEN "json"
    ELSE IF Includes(ct, Kw.xml) THEN "xml"
    ELSE IF Includes(ct, Kw.html) THEN "html"
    ELSE IF Includes(ct, Kw.markdown) \/ Includes(ct, Kw.md) THEN "markdown"
    ELSE IF Includes(ct, Kw.csv) THEN "csv"
    ELSE None

\* step 1: the content-type header
HeaderFamily(ct) ==
    IF Includes(ct, Kw.json) THEN "json"
    ELSE IF Includes(ct, Kw.html) THEN "html"
    ELSE IF Includes(ct, Kw.markdown) \/ Includes(ct, Kw.md) THEN "markdown"
    ELSE IF Includes(ct, Kw.xml) THEN "xml"
    ELSE IF Includes(ct, Kw.csv) THEN "csv"
    ELSE None

\* mutant: url.includes in place of url.endsWith
SuffixFamily_Includes(u) ==
    IF Includes(u, Ext.json) THEN "json"
    ELSE IF Includes(u, Ext.html) \/ Includes(u, Ext.htm) THEN "html"
    ELSE IF Includes(u, Ext.md) \/ Includes(u, Ext.markdown) THEN "markdown"
    ELSE IF Includes(u, Ext.xml) THEN "xml"
    ELSE IF Includes(u, Ext.csv) THEN "csv"
    ELSE None

\* step 2: the URL extension
SuffixFamily(u) ==
    IF EndsWith(u, Ext.json) THEN "json"
    ELSE IF EndsWith(u, Ext.html) \/ EndsWith(u, Ext.htm) THEN "html"
    ELSE IF EndsWith(u, Ext.md) \/ EndsWith(u, Ext.markdown) THEN "markdown"
    ELSE IF EndsWith(u, Ext.xml) THEN "xml"
    ELSE IF EndsWith(u, Ext.csv) THEN "csv"
    ELSE None

NonBlank(line) == Trim(line) # << >>

\* mutant: the lines are not filtered, blank lines count
LooksLikeCsv_NoFilter(c) ==
    /\ Includes(c, <<",">>)
    /\ Includes(c, <<"\n">>)
    /\ ~Includes(c, <<"<">>)
    /\ ~Includes(c, <<"{">>)
    /\ LET lines == Split(c, "\n")
       IN  /\ Len(lines) > 1
           /\ LET headerCommas == CountChar(lines[1], ",")
                  dataCommas == CountChar(lines[2], ",")
              IN  headerCommas > 0 /\ headerCommas = dataCommas

\* the CSV test: commas and newlines, no "<" or "{", and the first two lines
\* kept by the filter carry the same nonzero number of commas
LooksLikeCsv(c) ==
    /\ Includes(c, <<",">>)
    /\ Includes(c, <<"\n">>)
    /\ ~Includes(c, <<"<">>)
    /\ ~Includes(c, <<"{">>)
    /\ LET lines == SelectSeq(Split(c, "\n"), NonBlank)
       IN  /\ Len(lines) > 1
           /\ LET headerCommas == CountChar(lines[1], ",")
                  dataCommas == CountChar(lines[2], ",")
              IN  headerCommas > 0 /\ headerCommas = dataCommas

\* mutant: brace matching alone, no JSON.parse
SniffFamily_BraceOnly(c) ==
    IF StartsWith(Trim(c), <<"{">>) /\ EndsWith(Trim(c), <<"}">>) THEN "json"
    ELSE IF StartsWith(Trim(c), <<"<">>) /\ Includes(c, Marker.tagHtmlClose) THEN "html"
    ELSE IF Includes(c, Marker.xmlDecl) \/ (Includes(c, <<"<">>) /\ Includes(c, Marker.selfClose))
         THEN "xml"
    ELSE IF LooksLikeCsv(c) THEN "csv"
    ELSE "text"

\* mutant: the xml rule placed before the html rule
SniffFamily_XmlFirst(c) ==
    IF StartsWith(Trim(c), <<"{">>) /\ EndsWith(Trim(c), <<"}">>) /\ JsonParse(c).ok
    THEN "json"
    ELSE IF Includes(c, Marker.xmlDecl) \/ (Includes(c, <<"<">>) /\ Includes(c, Marker.selfClose))
         THEN "xml"
    ELSE IF StartsWith(Trim(c), <<"<">>) /\ Includes(c, Marker.tagHtmlClose) THEN "html"
    ELSE IF LooksLikeCsv(c) THEN "csv"
    ELSE "text"

\* mutant: no default, the function falls off its end
SniffFamily_NoDefault(c) ==
    IF StartsWith(Trim(c), <<"{">>) /\ EndsWith(Trim(c), <<"}">>) /\ JsonParse(c).ok
    THEN "json"
    ELSE IF StartsWith(Trim(c), <<"<">>) /\ Includes(c, Marker.tagHtmlClose) THEN "html"
    ELSE IF Includes(c, Marker.xmlDecl) \/ (Includes(c, <<"<">>) /\ Includes(c, Marker.selfClose))
         THEN "xml"
    ELSE IF LooksLikeCsv(c) THEN "csv"
    ELSE "undefined"

\* step 3 and the default: the shape of the content
SniffFamily(c) ==
    IF StartsWith(Trim(c), <<"{">>) /\ EndsWith(Trim(c), <<"}">>) /\ JsonParse(c).ok
    THEN "json"
    ELSE IF StartsWith(Trim(c), <<"<">>) /\ Includes(c, Marker.tagHtmlClose) THEN "html"
    ELSE IF Includes(c, Marker.xmlDecl) \/ (Includes(c, <<"<">>) /\ Includes(c, Marker.selfClose))
         THEN "xml"
    ELSE IF LooksLikeCsv(c) THEN "csv"
    ELSE "text"

\* mutant: the URL extension consulted before the header
detectContentType_SuffixFirst(ct, u, c) ==
    IF SuffixFamily(u) # None THEN SuffixFamily(u)
    ELSE IF HeaderFamily(ct) # None THEN HeaderFamily(ct)
    ELSE SniffFamily(c)

\* detectContentType(contentType, url, content) of the Playwright server
detectContentType(ct, u, c) ==
    IF HeaderFamily(ct) # None THEN HeaderFamily(ct)
    ELSE IF SuffixFamily(u) # None THEN SuffixFamily(u)
    ELSE SniffFamily(c)

\* detectContentType(response, url) of src/index.ts: header, extension, "text"
detectContentTypeStatic(ct, u) ==
    IF HeaderFamily(ct) # None THEN HeaderFamily(ct)
    ELSE IF SuffixFamily(u) # None THEN SuffixFamily(u)
    ELSE "text"

-----------------------------------------------------------------------------
(* String.prototype.replace with the global regular expressions of the code. *)
(* A pattern is named by a tag; MatchAt gives the match that starts at       *)
(* position i, as the backtracking matcher finds it, and the groups it       *)
(* captures.                                                                  *)

Letters ==
    {"a", "b", "c", "d", "e", "f", "g", "h", "i", "j", "k", "l", "m", "n", "o", "p", "q",
     "r", "s", "t", "u", "v", "w", "x", "y", "z", "A", "B", "C", "D", "E", "F", "G", "H",
     "I", "J", "K", "L", "M", "N", "O", "P", "Q", "R", "S", "T", "U", "V", "W", "X", "Y",
     "Z"}

\* \w
IsWord(c) == c \in Letters \/ IsDigit(c) \/ c = "_"

\* a line terminator, which "." does not match
IsLineEnd(c) == c \in {"\n", "\r"}

\* \b before position i (i = Len(s) + 1 is the end of the string)
BoundaryAt(s, i) ==
    LET before == i > 1 /\ IsWord(s[i - 1])
        after == i <= Len(s) /\ IsWord(s[i])
    IN  before # after

\* end of the run of characters of the set cs that starts at i
RunEnd(s, i, cs) ==
    CHOOSE j \in i..(Len(s) + 1) :
        /\ (j = Len(s) + 1 \/ s[j] \notin cs)
        /\ \A k \in i..(j - 1) : s[k] \in cs

NoMatch == [ok |-> FALSE, end |-> 0, groups |-> << >>]

Match(e, gs) == [ok |-> TRUE, end |-> e, groups |-> gs]

\* open (.*?) close, from position i: the nearest close with no line end before it
LazyPair(s, i, open, close) ==
    IF ~HasAt(s, i, open) THEN NoMatch
    ELSE LET from == i + Len(open)
             ends == {j \in from..Len(s) :
                        /\ HasAt(s, j, close)
                        /\ \A k \in from..(j - 1) : ~IsLineEnd(s[k])}
         IN  IF ends = {} THEN NoMatch
             ELSE LET j == CHOOSE x \in ends : \A y \in ends : x <= y
                  IN  Match(j + Len(close), <<SubSeq(s, from, j - 1)>>)

\* prefix [ (.*?) ]( (.*?) ) from position i
LinkMatch(s, i, prefix) ==
    IF ~HasAt(s, i, prefix \o <<"[">>) THEN NoMatch
    ELSE LET from == i + Len(prefix) + 1
             mids == {j \in from..Len(s) :
                        /\ HasAt(s, j, <<"]", "(">>)
                        /\ \A k \in from..(j - 1) : ~IsLineEnd(s[k])
                        /\ \E e \in (j + 2)..Len(s) :
                              s[e] = ")" /\ \A k \in (j + 2)..(e - 1) : ~IsLineEnd(s[k])}
         IN  IF mids = {} THEN NoMatch
             ELSE LET j == CHOOSE x \in mids : \A y \in mids : x <= y
                      e == CHOOSE x \in (j + 2)..Len(s) :
                              /\ s[x] = ")"
                              /\ \A k \in (j + 2)..(x - 1) : s[k] # ")" /\ ~IsLineEnd(s[k])
                  IN  Match(e + 1, <<SubSeq(s, from, j - 1), SubSeq(s, j + 2, e - 1)>>)

\* "([^"]+)" from position i: up to the next quote, at least one character
QuotedAt(s, i) ==
    LET quotes == {j \in (i + 1)..Len(s) : s[j] = "\""}
    IN  IF s[i] # "\"" \/ quotes = {} THEN NoMatch
        ELSE LET j == CHOOSE x \in quotes : \A y \in quotes : x <= y
             IN  IF j = i + 1 THEN NoMatch ELSE Match(j + 1, <<SubSeq(s, i + 1, j - 1)>>)

MatchAt(pat, s, i) ==
    CASE pat = "jsonKey" ->        \* /"([^"]+)":/
            LET m == QuotedAt(s, i)
            IN  IF m.ok /\ HasAt(s, m.end, <<":">>) THEN Match(m.end + 1, m.groups)
                ELSE NoMatch
      [] pat = "jsonString" ->     \* /"([^"]+)"/
            QuotedAt(s, i)
      [] pat = "jsonNumber" ->     \* /\b(\d+)\b/
            LET e == RunEnd(s, i, {Digits[d] : d \in 1..Len(Digits)})
            IN  IF e > i /\ BoundaryAt(s, i) /\ BoundaryAt(s, e)
                THEN Match(e, <<SubSeq(s, i, e - 1)>>)
                ELSE NoMatch
      [] pat = "jsonBoolean" ->    \* /\b(true|false)\b/
            IF BoundaryAt(s, i) /\ HasAt(s, i, <<"t", "r", "u", "e">>) /\ BoundaryAt(s, i + 4)
            THEN Match(i + 4, <<SubSeq(s, i, i + 3)>>)
            ELSE IF BoundaryAt(s, i) /\ HasAt(s, i, <<"f", "a", "l", "s", "e">>)
                    /\ BoundaryAt(s, i + 5)
            THEN Match(i + 5, <<SubSeq(s, i, i + 4)>>)
            ELSE NoMatch
      [] pat = "jsonNull" ->       \* /\bnull\b/
            IF BoundaryAt(s, i) /\ HasAt(s, i, <<"n", "u", "l", "l">>) /\ BoundaryAt(s, i + 4)
            THEN Match(i + 4, << >>)
            ELSE NoMatch
      [] pat = "mdHeading" ->      \* /#+\s+/
            LET h == RunEnd(s, i, {"#"})
                w == RunEnd(s, h, WhiteSpace)
            IN  IF h > i /\ w > h THEN Match(w, << >>) ELSE NoMatch
      [] pat = "mdBold" ->         \* /\*\*(.*?)\*\*/
            LazyPair(s, i, <<"*", "*">>, <<"*", "*">>)
      [] pat = "mdItalic" ->       \* /\*(.*?)\*/
            LazyPair(s, i, <<"*">>, <<"*">>)
      [] pat = "mdLink" ->         \* /\[(.*?)\]\((.*?)\)/
            LinkMatch(s, i, << >>)
      [] pat = "mdImage" ->        \* /!\[(.*?)\]\((.*?)\)/
            LinkMatch(s, i, <<"!">>)
      [] pat = "mdFence" ->        \* three graves, [\s\S]*?, three graves
            LET ends == {j \in (i + 3)..Len(s) : HasAt(s, j, <<Grave, Grave, Grave>>)}
            IN  IF HasAt(s, i, <<Grave, Grave, Grave>>) /\ ends # {}
                THEN Match((CHOOSE x \in ends : \A y \in ends : x <= y) + 3, << >>)
                ELSE NoMatch
      [] pat = "mdCode" ->         \* grave (.*?) grave
            LazyPair(s, i, <<Grave>>, <<Grave>>)
      [] pat = "wsRun" ->          \* /\s+/
            LET w == RunEnd(s, i, WhiteSpace)
            IN  IF w > i THEN Match(w, << >>) ELSE NoMatch
      [] pat = "pipe" ->           \* /\|/
            IF s[i] = "|" THEN Match(i + 1, << >>) ELSE NoMatch
      [] pat = "mdBullet" ->       \* /^\s*[-*+]\s+/m
            LET w == RunEnd(s, i, WhiteSpace)
                e == RunEnd(s, w + 1, WhiteSpace)
            IN  IF (i = 1 \/ IsLineEnd(s[i - 1])) /\ w <= Len(s) /\ s[w] \in {"-", "*", "+"}
                    /\ e > w + 1
                THEN Match(e, << >>)
                ELSE NoMatch

Span ==
    [keyOpen |->
        <<"<","s","p","a","n"," ","c","l","a","s","s","=","\"","j","s","o","n","-","k","e","y","\"",
          ">","\"">>,
     keyClose |->
        <<"\"","<","/","s","p","a","n",">",":">>,
     stringOpen |->
        <<"<","s","p","a","n"," ","c","l","a","s","s","=","\"","j","s","o","n","-","s","t","r","i",
          "n","g","\"",">","\"">>,
     stringClose |->
        <<"\"","<","/","s","p","a","n",">">>,
     numberOpen |->
        <<"<","s","p","a","n"," ","c","l","a","s","s","=","\"","j","s","o","n","-","n","u","m","b",
          "e","r","\"",">">>,
     booleanOpen |->
        <<"<","s","p","a","n"," ","c","l","a","s","s","=","\"","j","s","o","n","-","b","o","o","l",
          "e","a","n","\"",">">>,
     nullValue |->
        <<"<","s","p","a","n"," ","c","l","a","s","s","=","\"","j","s","o","n","-","n","u","l","l",
          "\"",">","n","u","l","l","<","/","s","p","a","n",">">>,
     close |->
        <<"<","/","s","p","a","n",">">>]

\* the fixed text of the converters' outputs: the pieces of their template
\* literals between the holes, and their separators
Tpl ==
    [jsonHtmlHead |->
        <<"<","!","D","O","C","T","Y","P","E"," ","h","t","m","l",">","\n","<","h","t","m","l",">",
          "\n","<","h","e","a","d",">","\n"," "," ","<","m","e","t","a"," ","c","h","a","r","s","e",
          "t","=","\"","U","T","F","-","8","\"",">","\n"," "," ","<","m","e","t","a"," ","n","a",
          "m","e","=","\"","v","i","e","w","p","o","r","t","\""," ","c","o","n","t","e","n","t","=",
          "\"","w","i","d","t","h","=","d","e","v","i","c","e","-","w","i","d","t","h",","," ","i",
          "n","i","t","i","a","l","-","s","c","a","l","e","=","1",".","0","\"",">","\n"," "," ","<",
          "t","i","t","l","e",">","J","S","O","N"," ","V","i","e","w","e","r","<","/","t","i","t",
          "l","e",">","\n"," "," ","<","s","t","y","l","e",">","\n"," "," "," "," ","b","o","d","y",
          " ","{"," ","f","o","n","t","-","f","a","m","i","l","y",":"," ","-","a","p","p","l","e",
          "-","s","y","s","t","e","m",","," ","B","l","i","n","k","M","a","c","S","y","s","t","e",
          "m","F","o","n","t",","," ","'","S","e","g","o","e"," ","U","I","'",","," ","R","o","b",
          "o","t","o",","," ","O","x","y","g","e","n",","," ","U","b","u","n","t","u",","," ","C",
          "a","n","t","a","r","e","l","l",","," ","'","O","p","e","n"," ","S","a","n","s","'",",",
          " ","'","H","e","l","v","e","t","i","c","a"," ","N","e","u","e","'",","," ","s","a","n",
          "s","-","s","e","r","i","f",";"," ","l","i","n","e","-","h","e","i","g","h","t",":"," ",
          "1",".","6",";"," ","p","a","d","d","i","n","g",":"," ","2","0","p","x",";"," ","}","\n",
          " "," "," "," ","p","r","e"," ","{"," ","b","a","c","k","g","r","o","u","n","d","-","c",
          "o","l","o","r",":"," ","#","f","5","f","5","f","5",";"," ","p","a","d","d","i","n","g",
          ":"," ","1","5","p","x",";"," ","b","o","r","d","e","r","-","r","a","d","i","u","s",":",
          " ","5","p","x",";"," ","o","v","e","r","f","l","o","w","-","x",":"," ","a","u","t","o",
          ";"," ","}","\n"," "," "," "," ",".","j","s","o","n","-","k","e","y"," ","{"," ","c","o",
          "l","o","r",":"," ","#","0","0","3","3","b","3",";"," ","}","\n"," "," "," "," ",".","j",
          "s","o","n","-","s","t","r","i","n","g"," ","{"," ","c","o","l","o","r",":"," ","#","3",
          "8","8","E","3","C",";"," ","}","\n"," "," "," "," ",".","j","s","o","n","-","n","u","m",
          "b","e","r"," ","{"," ","c","o","l","o","r",":"," ","#","1","9","7","6","D","2",";"," ",
          "}","\n"," "," "," "," ",".","j","s","o","n","-","b","o","o","l","e","a","n"," ","{"," ",
          "c","o","l","o","r",":"," ","#","7","E","5","7","C","2",";"," ","}","\n"," "," "," "," ",
          ".","j","s","o","n","-","n","u","l","l"," ","{"," ","c","o","l","o","r",":"," ","#","5",
          "D","4","0","3","7",";"," ","}","\n"," "," ","<","/","s","t","y","l","e",">","\n","<","/",
          "h","e","a","d",">","\n","<","b","o","d","y",">","\n"," "," ","<","h","1",">","J","S","O",
          "N"," ","C","o","n","t","e","n","t","<","/","h","1",">","\n"," "," ","<","p","r","e",">">>,
     preSourceOpen |->
        <<"<","/","p","r","e",">","\n"," "," ","<","f","o","o","t","e","r",">","\n"," "," "," "," ",
          "<","p",">","S","o","u","r","c","e",":"," ">>,
     convertedAtOpen |->
        <<"<","/","p",">","\n"," "," "," "," ","<","p",">","C","o","n","v","e","r","t","e","d"," ",
          "a","t",":"," ">>,
     htmlClose |->
        <<"<","/","p",">","\n"," "," ","<","/","f","o","o","t","e","r",">","\n","<","/","b","o","d",
          "y",">","\n","<","/","h","t","m","l",">">>,
     preOpen |->
        <<"<","p","r","e",">">>,
     preClose |->
        <<"<","/","p","r","e",">">>,
     markdownHtmlHead |->
        <<"<","!","D","O","C","T","Y","P","E"," ","h","t","m","l",">","\n","<","h","t","m","l",">",
          "\n","<","h","e","a","d",">","\n"," "," ","<","m","e","t","a"," ","c","h","a","r","s","e",
          "t","=","\"","U","T","F","-","8","\"",">","\n"," "," ","<","m","e","t","a"," ","n","a",
          "m","e","=","\"","v","i","e","w","p","o","r","t","\""," ","c","o","n","t","e","n","t","=",
          "\"","w","i","d","t","h","=","d","e","v","i","c","e","-","w","i","d","t","h",","," ","i",
          "n","i","t","i","a","l","-","s","c","a","l","e","=","1",".","0","\"",">","\n"," "," ","<",
          "t","i","t","l","e",">","M","a","r","k","d","o","w","n"," ","C","o","n","t","e","n","t",
          "<","/","t","i","t","l","e",">","\n"," "," ","<","s","t","y","l","e",">","\n"," "," "," ",
          " ","b","o","d","y"," ","{"," ","f","o","n","t","-","f","a","m","i","l","y",":"," ","-",
          "a","p","p","l","e","-","s","y","s","t","e","m",","," ","B","l","i","n","k","M","a","c",
          "S","y","s","t","e","m","F","o","n","t",","," ","'","S","e","g","o","e"," ","U","I","'",
          ","," ","R","o","b","o","t","o",","," ","O","x","y","g","e","n",","," ","U","b","u","n",
          "t","u",","," ","C","a","n","t","a","r","e","l","l",","," ","'","O","p","e","n"," ","S",
          "a","n","s","'",","," ","'","H","e","l","v","e","t","i","c","a"," ","N","e","u","e","'",
          ","," ","s","a","n","s","-","s","e","r","i","f",";"," ","l","i","n","e","-","h","e","i",
          "g","h","t",":"," ","1",".","6",";"," ","p","a","d","d","i","n","g",":"," ","2","0","p",
          "x",";"," ","m","a","x","-","w","i","d","t","h",":"," ","8","0","0","p","x",";"," ","m",
          "a","r","g","i","n",":"," ","0"," ","a","u","t","o",";"," ","}","\n"," "," "," "," ","i",
          "m","g"," ","{"," ","m","a","x","-","w","i","d","t","h",":"," ","1","0","0","%",";"," ",
          "h","e","i","g","h","t",":"," ","a","u","t","o",";"," ","}","\n"," "," "," "," ","p","r",
          "e"," ","{"," ","b","a","c","k","g","r","o","u","n","d","-","c","o","l","o","r",":"," ",
          "#","f","5","f","5","f","5",";"," ","p","a","d","d","i","n","g",":"," ","1","5","p","x",
          ";"," ","b","o","r","d","e","r","-","r","a","d","i","u","s",":"," ","5","p","x",";"," ",
          "o","v","e","r","f","l","o","w","-","x",":"," ","a","u","t","o",";"," ","}","\n"," "," ",
          " "," ","c","o","d","e"," ","{"," ","b","a","c","k","g","r","o","u","n","d","-","c","o",
          "l","o","r",":"," ","#","f","5","f","5","f","5",";"," ","p","a","d","d","i","n","g",":",
          " ","2","p","x"," ","4","p","x",";"," ","b","o","r","d","e","r","-","r","a","d","i","u",
          "s",":"," ","3","p","x",";"," ","}","\n"," "," "," "," ","b","l","o","c","k","q","u","o",
          "t","e"," ","{"," ","b","o","r","d","e","r","-","l","e","f","t",":"," ","4","p","x"," ",
          "s","o","l","i","d"," ","#","d","d","d",";"," ","p","a","d","d","i","n","g","-","l","e",
          "f","t",":"," ","1","5","p","x",";"," ","c","o","l","o","r",":"," ","#","6","6","6",";",
          " ","}","\n"," "," "," "," ","t","a","b","l","e"," ","{"," ","b","o","r","d","e","r","-",
          "c","o","l","l","a","p","s","e",":"," ","c","o","l","l","a","p","s","e",";"," ","w","i",
          "d","t","h",":"," ","1","0","0","%",";"," ","}","\n"," "," "," "," ","t","a","b","l","e",
          ","," ","t","h",","," ","t","d"," ","{"," ","b","o","r","d","e","r",":"," ","1","p","x",
          " ","s","o","l","i","d"," ","#","d","d","d",";"," ","}","\n"," "," "," "," ","t","h",",",
          " ","t","d"," ","{"," ","p","a","d","d","i","n","g",":"," ","8","p","x",";"," ","t","e",
          "x","t","-","a","l","i","g","n",":"," ","l","e","f","t",";"," ","}","\n"," "," "," "," ",
          "t","h"," ","{"," ","b","a","c","k","g","r","o","u","n","d","-","c","o","l","o","r",":",
          " ","#","f","5","f","5","f","5",";"," ","}","\n"," "," ","<","/","s","t","y","l","e",">",
          "\n","<","/","h","e","a","d",">","\n","<","b","o","d","y",">","\n"," "," ">>,
     sourceOpen |->
        <<"\n"," "," ","<","f","o","o","t","e","r",">","\n"," "," "," "," ","<","p",">","S","o","u",
          "r","c","e",":"," ">>,
     csvHtmlHead |->
        <<"<","!","D","O","C","T","Y","P","E"," ","h","t","m","l",">","\n","<","h","t","m","l",">",
          "\n","<","h","e","a","d",">","\n"," "," ","<","m","e","t","a"," ","c","h","a","r","s","e",
          "t","=","\"","U","T","F","-","8","\"",">","\n"," "," ","<","m","e","t","a"," ","n","a",
          "m","e","=","\"","v","i","e","w","p","o","r","t","\""," ","c","o","n","t","e","n","t","=",
          "\"","w","i","d","t","h","=","d","e","v","i","c","e","-","w","i","d","t","h",","," ","i",
          "n","i","t","i","a","l","-","s","c","a","l","e","=","1",".","0","\"",">","\n"," "," ","<",
          "t","i","t","l","e",">","C","S","V"," ","D","a","t","a","<","/","t","i","t","l","e",">",
          "\n"," "," ","<","s","t","y","l","e",">","\n"," "," "," "," ","b","o","d","y"," ","{"," ",
          "f","o","n","t","-","f","a","m","i","l","y",":"," ","-","a","p","p","l","e","-","s","y",
          "s","t","e","m",","," ","B","l","i","n","k","M","a","c","S","y","s","t","e","m","F","o",
          "n","t",","," ","'","S","e","g","o","e"," ","U","I","'",","," ","R","o","b","o","t","o",
          ","," ","O","x","y","g","e","n",","," ","U","b","u","n","t","u",","," ","C","a","n","t",
          "a","r","e","l","l",","," ","'","O","p","e","n"," ","S","a","n","s","'",","," ","'","H",
          "e","l","v","e","t","i","c","a"," ","N","e","u","e","'",","," ","s","a","n","s","-","s",
          "e","r","i","f",";"," ","p","a","d","d","i","n","g",":"," ","2","0","p","x",";"," ","}",
          "\n"," "," "," "," ","t","a","b","l","e"," ","{"," ","b","o","r","d","e","r","-","c","o",
          "l","l","a","p","s","e",":"," ","c","o","l","l","a","p","s","e",";"," ","w","i","d","t",
          "h",":"," ","1","0","0","%",";"," ","m","a","r","g","i","n","-","b","o","t","t","o","m",
          ":"," ","2","0","p","x",";"," ","}","\n"," "," "," "," ","t","h",","," ","t","d"," ","{",
          " ","p","a","d","d","i","n","g",":"," ","8","p","x",";"," ","t","e","x","t","-","a","l",
          "i","g","n",":"," ","l","e","f","t",";"," ","b","o","r","d","e","r",":"," ","1","p","x",
          " ","s","o","l","i","d"," ","#","d","d","d",";"," ","}","\n"," "," "," "," ","t","h"," ",
          "{"," ","b","a","c","k","g","r","o","u","n","d","-","c","o","l","o","r",":"," ","#","f",
          "5","f","5","f","5",";"," ","p","o","s","i","t","i","o","n",":"," ","s","t","i","c","k",
          "y",";"," ","t","o","p",":"," ","0",";"," ","}","\n"," "," "," "," ","t","r",":","n","t",
          "h","-","c","h","i","l","d","(","e","v","e","n",")"," ","{"," ","b","a","c","k","g","r",
          "o","u","n","d","-","c","o","l","o","r",":"," ","#","f","9","f","9","f","9",";"," ","}",
          "\n"," "," "," "," ",".","c","o","n","t","a","i","n","e","r"," ","{"," ","m","a","x","-",
          "h","e","i","g","h","t",":"," ","6","0","0","p","x",";"," ","o","v","e","r","f","l","o",
          "w","-","y",":"," ","a","u","t","o",";"," ","m","a","r","g","i","n","-","t","o","p",":",
          " ","2","0","p","x",";"," ","}","\n"," "," ","<","/","s","t","y","l","e",">","\n","<","/",
          "h","e","a","d",">","\n","<","b","o","d","y",">","\n"," "," ","<","h","1",">","C","S","V",
          " ","D","a","t","a","<","/","h","1",">","\n"," "," ","<","d","i","v"," ","c","l","a","s",
          "s","=","\"","c","o","n","t","a","i","n","e","r","\"",">","\n"," "," "," "," ">>,
     divSourceOpen |->
        <<"\n"," "," ","<","/","d","i","v",">","\n"," "," ","<","f","o","o","t","e","r",">","\n",
          " "," "," "," ","<","p",">","S","o","u","r","c","e",":"," ">>,
     totalRowsOpen |->
        <<"<","/","p",">","\n"," "," "," "," ","<","p",">","T","o","t","a","l"," ","r","o","w","s",
          ":"," ">>,
     xmlHtmlHead |->
        <<"<","!","D","O","C","T","Y","P","E"," ","h","t","m","l",">","\n","<","h","t","m","l",">",
          "\n","<","h","e","a","d",">","\n"," "," ","<","m","e","t","a"," ","c","h","a","r","s","e",
          "t","=","\"","U","T","F","-","8","\"",">","\n"," "," ","<","m","e","t","a"," ","n","a",
          "m","e","=","\"","v","i","e","w","p","o","r","t","\""," ","c","o","n","t","e","n","t","=",
          "\"","w","i","d","t","h","=","d","e","v","i","c","e","-","w","i","d","t","h",","," ","i",
          "n","i","t","i","a","l","-","s","c","a","l","e","=","1",".","0","\"",">","\n"," "," ","<",
          "t","i","t","l","e",">","X","M","L"," ","C","o","n","t","e","n","t","<","/","t","i","t",
          "l","e",">","\n"," "," ","<","s","t","y","l","e",">","\n"," "," "," "," ","b","o","d","y",
          " ","{"," ","f","o","n","t","-","f","a","m","i","l","y",":"," ","-","a","p","p","l","e",
          "-","s","y","s","t","e","m",","," ","B","l","i","n","k","M","a","c","S","y","s","t","e",
          "m","F","o","n","t",","," ","'","S","e","g","o","e"," ","U","I","'",","," ","R","o","b",
          "o","t","o",","," ","O","x","y","g","e","n",","," ","U","b","u","n","t","u",","," ","C",
          "a","n","t","a","r","e","l","l",","," ","'","O","p","e","n"," ","S","a","n","s","'",",",
          " ","'","H","e","l","v","e","t","i","c","a"," ","N","e","u","e","'",","," ","s","a","n",
          "s","-","s","e","r","i","f",";"," ","l","i","n","e","-","h","e","i","g","h","t",":"," ",
          "1",".","6",";"," ","p","a","d","d","i","n","g",":"," ","2","0","p","x",";"," ","}","\n",
          " "," "," "," ","p","r","e"," ","{"," ","b","a","c","k","g","r","o","u","n","d","-","c",
          "o","l","o","r",":"," ","#","f","5","f","5","f","5",";"," ","p","a","d","d","i","n","g",
          ":"," ","1","5","p","x",";"," ","b","o","r","d","e","r","-","r","a","d","i","u","s",":",
          " ","5","p","x",";"," ","o","v","e","r","f","l","o","w","-","x",":"," ","a","u","t","o",
          ";"," ","}","\n"," "," "," "," ",".","x","m","l","-","t","a","g"," ","{"," ","c","o","l",
          "o","r",":"," ","#","0","0","3","3","b","3",";"," ","}","\n"," "," "," "," ",".","x","m",
          "l","-","a","t","t","r"," ","{"," ","c","o","l","o","r",":"," ","#","7","E","5","7","C",
          "2",";"," ","}","\n"," "," "," "," ",".","x","m","l","-","c","o","n","t","e","n","t"," ",
          "{"," ","c","o","l","o","r",":"," ","#","3","8","8","E","3","C",";"," ","}","\n"," "," ",
          "<","/","s","t","y","l","e",">","\n","<","/","h","e","a","d",">","\n","<","b","o","d","y",
          ">","\n"," "," ","<","h","1",">","X","M","L"," ","C","o","n","t","e","n","t","<","/","h",
          "1",">","\n"," "," ","<","h","2",">","O","r","i","g","i","n","a","l"," ","X","M","L","<",
          "/","h","2",">","\n"," "," ","<","p","r","e",">">>,
     asJsonOpen |->
        <<"<","/","p","r","e",">","\n"," "," ","<","h","2",">","A","s"," ","J","S","O","N","<","/",
          "h","2",">","\n"," "," ","<","p","r","e",">">>,
     textHtmlHead |->
        <<"<","!","D","O","C","T","Y","P","E"," ","h","t","m","l",">","\n","<","h","t","m","l",">",
          "\n","<","h","e","a","d",">","\n"," "," ","<","m","e","t","a"," ","c","h","a","r","s","e",
          "t","=","\"","U","T","F","-","8","\"",">","\n"," "," ","<","m","e","t","a"," ","n","a",
          "m","e","=","\"","v","i","e","w","p","o","r","t","\""," ","c","o","n","t","e","n","t","=",
          "\"","w","i","d","t","h","=","d","e","v","i","c","e","-","w","i","d","t","h",","," ","i",
          "n","i","t","i","a","l","-","s","c","a","l","e","=","1",".","0","\"",">","\n"," "," ","<",
          "t","i","t","l","e",">","T","e","x","t"," ","C","o","n","t","e","n","t","<","/","t","i",
          "t","l","e",">","\n"," "," ","<","s","t","y","l","e",">","\n"," "," "," "," ","b","o","d",
          "y"," ","{"," ","f","o","n","t","-","f","a","m","i","l","y",":"," ","-","a","p","p","l",
          "e","-","s","y","s","t","e","m",","," ","B","l","i","n","k","M","a","c","S","y","s","t",
          "e","m","F","o","n","t",","," ","'","S","e","g","o","e"," ","U","I","'",","," ","R","o",
          "b","o","t","o",","," ","O","x","y","g","e","n",","," ","U","b","u","n","t","u",","," ",
          "C","a","n","t","a","r","e","l","l",","," ","'","O","p","e","n"," ","S","a","n","s","'",
          ","," ","'","H","e","l","v","e","t","i","c","a"," ","N","e","u","e","'",","," ","s","a",
          "n","s","-","s","e","r","i","f",";"," ","l","i","n","e","-","h","e","i","g","h","t",":",
          " ","1",".","6",";"," ","p","a","d","d","i","n","g",":"," ","2","0","p","x",";"," ","}",
          "\n"," "," "," "," ","p","r","e"," ","{"," ","b","a","c","k","g","r","o","u","n","d","-",
          "c","o","l","o","r",":"," ","#","f","5","f","5","f","5",";"," ","p","a","d","d","i","n",
          "g",":"," ","1","5","p","x",";"," ","b","o","r","d","e","r","-","r","a","d","i","u","s",
          ":"," ","5","p","x",";"," ","o","v","e","r","f","l","o","w","-","x",":"," ","a","u","t",
          "o",";"," ","w","h","i","t","e","-","s","p","a","c","e",":"," ","p","r","e","-","w","r",
          "a","p",";"," ","}","\n"," "," ","<","/","s","t","y","l","e",">","\n","<","/","h","e","a",
          "d",">","\n","<","b","o","d","y",">","\n"," "," ","<","h","1",">","T","e","x","t"," ","C",
          "o","n","t","e","n","t","<","/","h","1",">","\n"," "," ","<","p","r","e",">">>,
     ruleSourceOpen |->
        <<"\n","\n","-","-","-","\n","\n","S","o","u","r","c","e",":"," ">>,
     convertedOpen |->
        <<"\n","C","o","n","v","e","r","t","e","d",":"," ">>,
     newline |->
        <<"\n">>,
     jsonFenceOpen |->
        <<"#"," ","J","S","O","N"," ","C","o","n","t","e","n","t","\n","\n",Grave,Grave,Grave,"j","s","o",
          "n","\n">>,
     fenceClose |->
        <<"\n",Grave,Grave,Grave,"\n","\n">>,
     mdSourceOpen |->
        <<"S","o","u","r","c","e",":"," ">>,
     fenceOpen |->
        <<Grave,Grave,Grave,"\n">>,
     fenceSourceOpen |->
        <<"\n",Grave,Grave,Grave,"\n","\n","S","o","u","r","c","e",":"," ">>,
     mdTruncatedOpen |->
        <<"\n","*","T","a","b","l","e"," ","t","r","u","n","c","a","t","e","d","."," ","T","o","t",
          "a","l"," ","r","o","w","s",":"," ">>,
     mdTruncatedClose |->
        <<"*","\n">>,
     blankSourceOpen |->
        <<"\n","\n","S","o","u","r","c","e",":"," ">>,
     xmlJsonFenceOpen |->
        <<"#"," ","X","M","L"," ","C","o","n","t","e","n","t","\n","\n","#","#"," ","A","s"," ","J",
          "S","O","N","\n","\n",Grave,Grave,Grave,"j","s","o","n","\n">>,
     xmlFenceOpen |->
        <<"#","#"," ","O","r","i","g","i","n","a","l"," ","X","M","L","\n","\n",Grave,Grave,Grave,"x","m",
          "l","\n">>,
     contentFenceOpen |->
        <<"#"," ","C","o","n","t","e","n","t","\n","\n",Grave,Grave,Grave,"\n">>,
     contentOpen |->
        <<"#"," ","C","o","n","t","e","n","t","\n","\n">>,
     emptyCsv |->
        <<"E","m","p","t","y"," ","o","r"," ","i","n","v","a","l","i","d"," ","C","S","V"," ","d",
          "a","t","a","\n","\n","S","o","u","r","c","e",":"," ">>,
     textTruncatedOpen |->
        <<"\n","[","T","a","b","l","e"," ","t","r","u","n","c","a","t","e","d","."," ","T","o","t",
          "a","l"," ","r","o","w","s",":"," ">>,
     textTruncatedClose |->
        <<"]","\n">>,
     mdCsvHead |->
        <<"#"," ","C","S","V"," ","D","a","t","a","\n","\n">>,
     tableOpen |->
        <<"<","t","a","b","l","e"," ","b","o","r","d","e","r","=","\"","1","\"",">","<","t","h","e",
          "a","d",">","<","t","r",">">>,
     thOpen |->
        <<"<","t","h",">">>,
     thClose |->
        <<"<","/","t","h",">">>,
     theadClose |->
        <<"<","/","t","r",">","<","/","t","h","e","a","d",">","<","t","b","o","d","y",">">>,
     trOpen |->
        <<"<","t","r",">">>,
     tdOpen |->
        <<"<","t","d",">">>,
     tdClose |->
        <<"<","/","t","d",">">>,
     trClose |->
        <<"<","/","t","r",">">>,
     tableClose |->
        <<"<","/","t","b","o","d","y",">","<","/","t","a","b","l","e",">">>,
     strUndefined |->
        <<"u","n","d","e","f","i","n","e","d">>,
     sepPipe |->
        <<" ","|"," ">>,
     sepDashPipe |->
        <<"-","|","-">>,
     dashes |->
        <<"-","-","-">>,
     rowOpen |->
        <<"|"," ">>,
     rowClose |->
        <<" ","|","\n">>,
     imageOpen |->
        <<"[","I","m","a","g","e",":"," ">>]

Ent ==
    [amp |->
        <<"&","a","m","p",";">>,
     lt |->
        <<"&","l","t",";">>,
     gt |->
        <<"&","g","t",";">>,
     quot |->
        <<"&","q","u","o","t",";">>,
     apos |->
        <<"&","#","0","3","9",";">>]

\* the replacement string of each pattern, with its $1 and $2 filled in
Replacement(pat, g) ==
    CASE pat = "jsonKey" -> Span.keyOpen \o g[1] \o Span.keyClose
      [] pat = "jsonString" -> Span.stringOpen \o g[1] \o Span.stringClose
      [] pat = "jsonNumber" -> Span.numberOpen \o g[1] \o Span.close
      [] pat = "jsonBoolean" -> Span.booleanOpen \o g[1] \o Span.close
      [] pat = "jsonNull" -> Span.nullValue
      [] pat = "mdHeading" -> << >>
      [] pat = "mdBold" -> g[1]
      [] pat = "mdItalic" -> g[1]
      [] pat = "mdLink" -> g[1] \o <<" ", "(">> \o g[2] \o <<")">>
      [] pat = "mdImage" -> Tpl.imageOpen \o g[1] \o <<"]">>
      [] pat = "mdFence" -> << >>
      [] pat = "mdCode" -> g[1]
      [] pat = "mdBullet" -> <<"-", " ">>
      [] pat = "wsRun" -> <<" ">>
      [] pat = "pipe" -> <<"\\", "|">>

\* s.replace(/pat/g, replacement): matches are taken left to right, each search
\* resuming where the last match ended; starts holds the positions at which
\* the pattern matches
RECURSIVE ReplaceFrom(_, _, _, _)
ReplaceFrom(pat, s, i, starts) ==
    LET ahead == {j \in starts : j >= i}
    IN  IF ahead = {} THEN SubSeq(s, i, Len(s))
        ELSE LET j == CHOOSE x \in ahead : \A y \in ahead : x <= y
                 m == MatchAt(pat, s, j)
             IN  SubSeq(s, i, j - 1) \o Replacement(pat, m.groups)
                    \o ReplaceFrom(pat, s, m.end, starts)

ReplaceAll(s, pat) == ReplaceFrom(pat, s, 1, {j \in 1..Len(s) : MatchAt(pat, s, j).ok})

\* s.replace(/c/g, r) for a single character c
RECURSIVE ReplaceCharIn(_, _, _, _, _)
ReplaceCharIn(s, lo, hi, c, r) ==
    IF lo > hi THEN << >>
    ELSE IF lo = hi THEN (IF s[lo] = c THEN r ELSE <<s[lo]>>)
    ELSE LET mid == (lo + hi) \div 2
         IN  ReplaceCharIn(s, lo, mid, c, r) \o ReplaceCharIn(s, mid + 1, hi, c, r)

ReplaceChar(s, c, r) == ReplaceCharIn(s, 1, Len(s), c, r)

escapeHtml(unsafe) ==
    ReplaceChar(ReplaceChar(ReplaceChar(ReplaceChar(ReplaceChar(unsafe,
        "&", Ent.amp), "<", Ent.lt), ">", Ent.gt), "\"", Ent.quot), "'", Ent.apos)

formatJsonForHtml(json) ==
    ReplaceAll(ReplaceAll(ReplaceAll(ReplaceAll(ReplaceAll(
        ReplaceChar(ReplaceChar(ReplaceChar(json, "&", Ent.amp), "<", Ent.lt), ">", Ent.gt),
        "jsonKey"), "jsonString"), "jsonNumber"), "jsonBoolean"), "jsonNull")

-----------------------------------------------------------------------------
(* What the converters read besides their arguments: the clock and the       *)
(* third-party libraries.  A library's answer for the payload at hand is an  *)
(* input of the model, drawn from a small set.                               *)

\* a converter's outcome: the returned string, or the message of the Error thrown
Returned(text) == [kind |-> "ok", text |-> text]
Thrown(message) == [kind |-> "error", text |-> message]
NoResult == [kind |-> "none", text |-> << >>]

\* xmlParser.parse(content): the tree, or the message of the error it throws
XmlTree(v) == [ok |-> TRUE, val |-> v, message |-> << >>]
XmlError(message) == [ok |-> FALSE, val |-> JLit("null"), message |-> message]

XmlSample ==
    [errorMessage |->
        <<"U","n","c","l","o","s","e","d"," ","t","a","g">>,
     keyA |->
        <<"a">>,
     keyAttrB |->
        <<"@","_","b">>]

DateText ==
    [isoPrefix |->
        <<"1","9","7","0","-","0","1","-","0","1","T","0","0",":","0","0",":">>,
     isoSuffix |->
        <<".","0","0","0","Z">>,
     localePrefix |->
        <<"1","/","1","/","1","9","7","0",","," ","1","2",":","0","0",":">>,
     localeSuffix |->
        <<" ","A","M">>]

Key ==
    [content |->
        <<"c","o","n","t","e","n","t">>,
     type |->
        <<"t","y","p","e">>,
     source |->
        <<"s","o","u","r","c","e">>,
     timestamp |->
        <<"t","i","m","e","s","t","a","m","p">>,
     length |->
        <<"l","e","n","g","t","h">>,
     title |->
        <<"t","i","t","l","e">>,
     metaDescription |->
        <<"m","e","t","a","D","e","s","c","r","i","p","t","i","o","n">>,
     h1 |->
        <<"h","1">>,
     text |->
        <<"t","e","x","t">>,
     links |->
        <<"l","i","n","k","s">>,
     href |->
        <<"h","r","e","f">>,
     htmlLength |->
        <<"h","t","m","l","L","e","n","g","t","h">>,
     headings |->
        <<"h","e","a","d","i","n","g","s">>,
     level |->
        <<"l","e","v","e","l">>]

Msg ==
    [jsonConversion |->
        <<"J","S","O","N"," ","c","o","n","v","e","r","s","i","o","n"," ","e","r","r","o","r",":",
          " ">>,
     xmlFailed |->
        <<"F","a","i","l","e","d"," ","t","o"," ","p","a","r","s","e"," ","X","M","L",":"," ">>,
     csvEmpty |->
        <<"C","S","V"," ","d","a","t","a"," ","a","p","p","e","a","r","s"," ","t","o"," ","b","e",
          " ","e","m","p","t","y"," ","o","r"," ","i","n","v","a","l","i","d">>,
     htmlConversion |->
        <<"H","T","M","L"," ","c","o","n","v","e","r","s","i","o","n"," ","e","r","r","o","r",":",
          " ">>,
     markdownConversion |->
        <<"M","a","r","k","d","o","w","n"," ","c","o","n","v","e","r","s","i","o","n"," ","e","r",
          "r","o","r",":"," ">>,
     textConversion |->
        <<"T","e","x","t"," ","c","o","n","v","e","r","s","i","o","n"," ","e","r","r","o","r",":",
          " ">>]

FieldPrefix ==
    <<"f","i","e","l","d">>

PageSample ==
    [title |->
        <<"T">>,
     text |->
        <<"T"," ","x">>,
     linkText |->
        <<"x">>,
     href |->
        <<"h",":","/","/","b">>,
     sanitized |->
        <<"<","h","1",">","T","<","/","h","1",">","<","a"," ","h","r","e","f","=","\"","h",":","/",
          "/","b","\"",">","x","<","/","a",">">>,
     markdown |->
        <<"#"," ","T","\n","\n","[","x","]","(","h",":","/","/","b",")">>,
     markedHtml |->
        <<"<","h","1",">","T","<","/","h","1",">","\n","<","p",">","<","a"," ","h","r","e","f","=",
          "\"","h",":","/","/","b","\"",">","x","<","/","a",">","<","/","p",">","\n">>]

XmlResults ==
    {XmlError(XmlSample.errorMessage),
     XmlTree(JObj(<<[k |-> XmlSample.keyA, v |-> JStr(<< >>)]>>)),
     XmlTree(JObj(<<[k |-> XmlSample.keyA, v |-> JObj(<<[k |-> XmlSample.keyAttrB, v |-> JLit("true")]>>)]>>))}

\* what cheerio, sanitize-html, marked and turndown make of the payload
EmptyPage ==
    [title |-> << >>, metaDescription |-> << >>, h1 |-> << >>, headings |-> << >>,
     text |-> << >>, visibleText |-> << >>, links |-> << >>,
     sanitizedDefault |-> << >>, sanitized |-> << >>, turndown |-> << >>,
     markedHtml |-> << >>]

LinkedPage ==
    [title |-> PageSample.title, metaDescription |-> << >>, h1 |-> <<PageSample.title>>,
     headings |-> <<[level |-> 1, text |-> PageSample.title]>>,
     text |-> PageSample.text, visibleText |-> PageSample.text,
     links |-> <<[text |-> PageSample.linkText, hasHref |-> TRUE, href |-> PageSample.href],
                 [text |-> PageSample.linkText, hasHref |-> FALSE, href |-> << >>]>>,
     sanitizedDefault |-> PageSample.sanitized, sanitized |-> PageSample.sanitized,
     turndown |-> PageSample.markdown, markedHtml |-> PageSample.markedHtml]

Pages == {EmptyPage, LinkedPage}

\* new Date().toISOString() and new Date().toLocaleString() of the clock value
\* (the clock value is the seconds field, written in two digits)
IsoString(t) ==
    DateText.isoPrefix \o (IF t < 10 THEN <<"0">> \o NatToStr(t) ELSE NatToStr(t))
        \o DateText.isoSuffix

LocaleString(t) ==
    DateText.localePrefix \o (IF t < 10 THEN <<"0">> \o NatToStr(t) ELSE NatToStr(t))
        \o DateText.localeSuffix

\* the family name as it is written into an output
FamilyChars(f) ==
    CASE f = "json" -> Kw.json
      [] f = "html" -> Kw.html
      [] f = "markdown" -> Kw.markdown
      [] f = "xml" -> Kw.xml
      [] f = "csv" -> Kw.csv
      [] f = "text" -> Key.text

-----------------------------------------------------------------------------
(* csvtojson().fromString(content): the first line that is not empty names   *)
(* the fields, every later such line is one row; cells are split at commas   *)
(* and trimmed; a cell beyond the header is named field<n>.                  *)

CsvCells(line) ==
    LET raw == Split(line, ",") IN [i \in 1..Len(raw) |-> Trim(raw[i])]

CsvFieldName(header, i) ==
    IF i <= Len(header) THEN header[i] ELSE FieldPrefix \o NatToStr(i)

RECURSIVE CsvRowMembers(_, _, _)
CsvRowMembers(header, cells, n) ==
    IF n = 0 THEN << >>
    ELSE SetMember(CsvRowMembers(header, cells, n - 1), CsvFieldName(header, n),
                   JStr(cells[n]))

CsvToJson(c) ==
    LET lines == SelectSeq(Split(c, "\n"), NonBlank)
    IN  IF Len(lines) < 2 THEN << >>
        ELSE LET header == CsvCells(lines[1])
             IN  [r \in 1..(Len(lines) - 1) |->
                    JObj(CsvRowMembers(header, CsvCells(lines[r + 1]), Len(CsvCells(lines[r + 1]))))]

-----------------------------------------------------------------------------
(* convertToJson *)

Member(key, value) == [k |-> key, v |-> value]

JStrings(xs) == JArr([i \in 1..Len(xs) |-> JStr(xs[i])])

\* {text, href}: JSON.stringify leaves out a property whose value is undefined
JLink(l) ==
    JObj(IF l.hasHref THEN <<Member(Key.text, JStr(l.text)), Member(Key.href, JStr(l.href))>>
         ELSE <<Member(Key.text, JStr(l.text))>>)

JLinks(ls) == JArr([i \in 1..Len(ls) |-> JLink(ls[i])])

JHeadings(hs) ==
    JArr([i \in 1..Len(hs) |->
            JObj(<<Member(Key.level, JNum(hs[i].level)), Member(Key.text, JStr(hs[i].text))>>)])

\* the switch of convertToJson: the returned string, or the error thrown inside it
convertToJsonBody(c, st, u) ==
    CASE st = "json" ->
            LET parsed == JsonParse(c)
            IN  IF parsed.ok THEN Returned(JsonStringify2(parsed.val))
                ELSE Returned(JsonStringify(JObj(<<Member(Key.content, JStr(c))>>)))
      [] st = "html" ->
            Returned(JsonStringify2(JObj(<<
                Member(Key.title, JStr(page.title)),
                Member(Key.metaDescription, JStr(page.metaDescription)),
                Member(Key.h1, JStrings(page.h1)),
                Member(Key.text, JStr(Trim(page.text))),
                Member(Key.links, JLinks(page.links)),
                Member(Key.htmlLength, JNum(Len(page.sanitizedDefault)))>>)))
      [] st = "markdown" ->
            Returned(JsonStringify2(JObj(<<
                Member(Key.title, JStr(IF page.h1 = << >> THEN << >> ELSE page.h1[1])),
                Member(Key.headings, JHeadings(page.headings)),
                Member(Key.text, JStr(Trim(page.text))),
                Member(Key.links, JLinks(page.links))>>)))
      [] st = "csv" -> Returned(JsonStringify2(JArr(CsvToJson(c))))
      [] st = "xml" ->
            IF xmlParsed.ok THEN Returned(JsonStringify2(xmlParsed.val))
            ELSE Thrown(Msg.xmlFailed \o xmlParsed.message)
      [] OTHER ->
            Returned(JsonStringify2(JObj(<<
                Member(Key.content, JStr(c)),
                Member(Key.type, JStr(FamilyChars(st))),
                Member(Key.source, JStr(u)),
                Member(Key.timestamp, JStr(IsoString(now))),
                Member(Key.length, JNum(Len(c)))>>)))

\* the outer try/catch: an error thrown inside is rethrown with the prefix
Rethrow(prefix, r) == IF r.kind = "error" THEN Thrown(prefix \o r.text) ELSE r

\* mutant: json content is always wrapped, as if it never parsed
convertToJson_Wrap(c, st, u) ==
    IF st = "json" THEN Returned(JsonStringify(JObj(<<Member(Key.content, JStr(c))>>)))
    ELSE Rethrow(Msg.jsonConversion, convertToJsonBody(c, st, u))

\* mutant: the xml branch swallows a parse failure as the json branch does
convertToJson_XmlFallback(c, st, u) ==
    IF st = "xml" /\ ~xmlParsed.ok
    THEN Returned(JsonStringify(JObj(<<Member(Key.content, JStr(c))>>)))
    ELSE Rethrow(Msg.jsonConversion, convertToJsonBody(c, st, u))

\* mutant: the json branch lets the parse error out
convertToJson_Raise(c, st, u) ==
    IF st = "json" /\ ~JsonParse(c).ok THEN Thrown(Msg.jsonConversion \o XmlSample.errorMessage)
    ELSE Rethrow(Msg.jsonConversion, convertToJsonBody(c, st, u))

\* convertToJson as C12 words it: the json fallback pretty-printed like every
\* other branch (with it, C12_AlwaysPretty holds)
convertToJson_PrettyFallback(c, st, u) ==
    IF st = "json" /\ ~JsonParse(c).ok
    THEN Returned(JsonStringify2(JObj(<<Member(Key.content, JStr(c))>>)))
    ELSE Rethrow(Msg.jsonConversion, convertToJsonBody(c, st, u))

convertToJson(c, st, u) == Rethrow(Msg.jsonConversion, convertToJsonBody(c, st, u))

-----------------------------------------------------------------------------
(* convertToHtml, convertToMarkdown, convertToText *)

MarkdownMaxRows == 50
TextMaxRows == 25
FenceLimit == 1000

\* Array.prototype.join
RECURSIVE Join(_, _)
Join(xs, sep) ==
    IF xs = << >> THEN << >>
    ELSE IF Len(xs) = 1 THEN xs[1]
    ELSE xs[1] \o sep \o Join(Tail(xs), sep)

\* the concatenation of the strings of xs
RECURSIVE FlattenIn(_, _, _)
FlattenIn(xs, lo, hi) ==
    IF lo > hi THEN << >>
    ELSE IF lo = hi THEN xs[lo]
    ELSE LET mid == (lo + hi) \div 2
         IN  FlattenIn(xs, lo, mid) \o FlattenIn(xs, mid + 1, hi)

Flatten(xs) == FlattenIn(xs, 1, Len(xs))

\* Object.keys(row)
RowKeys(row) == [i \in 1..Len(row.members) |-> row.members[i].k]

HasField(row, h) == \E i \in 1..Len(row.members) : row.members[i].k = h

Field(row, h) == (row.members[CHOOSE i \in 1..Len(row.members) : row.members[i].k = h]).v.s

\* String(row[h])
FieldString(row, h) == IF HasField(row, h) THEN Field(row, h) ELSE Tpl.strUndefined

\* String(row[h] || "")
FieldOrEmpty(row, h) == IF HasField(row, h) THEN Field(row, h) ELSE << >>

Min(a, b) == IF a <= b THEN a ELSE b

\* Source: <url>, Converted: <local time>, as the Markdown and text outputs end
Trailer(open, u, close) == open \o u \o Tpl.convertedOpen \o LocaleString(now) \o close

\* the footer of the standalone HTML documents
Footer(open, u) ==
    open \o escapeHtml(u) \o Tpl.convertedAtOpen \o LocaleString(now) \o Tpl.htmlClose

CsvHtmlTable(rows) ==
    LET headers == RowKeys(rows[1])
    IN  Tpl.tableOpen
            \o Flatten([i \in 1..Len(headers) |-> Tpl.thOpen \o escapeHtml(headers[i]) \o Tpl.thClose])
            \o Tpl.theadClose
            \o Flatten([r \in 1..Len(rows) |->
                    Tpl.trOpen
                        \o Flatten([i \in 1..Len(headers) |->
                                Tpl.tdOpen \o escapeHtml(FieldString(rows[r], headers[i]))
                                    \o Tpl.tdClose])
                        \o Tpl.trClose])
            \o Tpl.tableClose

convertToHtmlBody(c, st, u) ==
    CASE st = "html" -> Returned(page.sanitized)
      [] st = "json" ->
            LET parsed == JsonParse(c)
            IN  IF parsed.ok
                THEN Returned(Tpl.jsonHtmlHead \o formatJsonForHtml(JsonStringify2(parsed.val))
                                \o Footer(Tpl.preSourceOpen, u))
                ELSE Returned(Tpl.preOpen \o escapeHtml(c) \o Tpl.preClose)
      [] st = "markdown" ->
            Returned(Tpl.markdownHtmlHead \o page.markedHtml \o Footer(Tpl.sourceOpen, u))
      [] st = "csv" ->
            LET rows == CsvToJson(c)
            IN  IF Len(rows) = 0 THEN Thrown(Msg.csvEmpty)
                ELSE Returned(Tpl.csvHtmlHead \o CsvHtmlTable(rows) \o Tpl.divSourceOpen
                                \o escapeHtml(u) \o Tpl.convertedAtOpen \o LocaleString(now)
                                \o Tpl.totalRowsOpen \o NatToStr(Len(rows)) \o Tpl.htmlClose)
      [] st = "xml" ->
            IF xmlParsed.ok
            THEN Returned(Tpl.xmlHtmlHead \o escapeHtml(c) \o Tpl.asJsonOpen
                            \o formatJsonForHtml(JsonStringify2(xmlParsed.val))
                            \o Footer(Tpl.preSourceOpen, u))
            ELSE Returned(Tpl.preOpen \o escapeHtml(c) \o Tpl.preClose)
      [] OTHER ->
            Returned(Tpl.textHtmlHead \o escapeHtml(c) \o Footer(Tpl.preSourceOpen, u))

convertToHtml(c, st, u) == Rethrow(Msg.htmlConversion, convertToHtmlBody(c, st, u))

\* mutant: every row is written and no notice is added
CsvMarkdownTable_NoLimit(rows) ==
    LET headers == RowKeys(rows[1])
    IN  Tpl.mdCsvHead
            \o Tpl.rowOpen \o Join(headers, Tpl.sepPipe) \o Tpl.rowClose
            \o Tpl.rowOpen \o Join([i \in 1..Len(headers) |-> Tpl.dashes], Tpl.sepPipe)
            \o Tpl.rowClose
            \o Flatten([r \in 1..Len(rows) |->
                    Tpl.rowOpen
                        \o Join([i \in 1..Len(headers) |->
                                    ReplaceAll(FieldOrEmpty(rows[r], headers[i]), "pipe")],
                                Tpl.sepPipe)
                        \o Tpl.rowClose])

CsvMarkdownTable(rows) ==
    LET headers == RowKeys(rows[1])
        maxRows == Min(Len(rows), MarkdownMaxRows)
    IN  Tpl.mdCsvHead
            \o Tpl.rowOpen \o Join(headers, Tpl.sepPipe) \o Tpl.rowClose
            \o Tpl.rowOpen \o Join([i \in 1..Len(headers) |-> Tpl.dashes], Tpl.sepPipe) \o Tpl.rowClose
            \o Flatten([r \in 1..maxRows |->
                    Tpl.rowOpen
                        \o Join([i \in 1..Len(headers) |->
                                    ReplaceAll(FieldOrEmpty(rows[r], headers[i]), "pipe")],
                                Tpl.sepPipe)
                        \o Tpl.rowClose])
            \o (IF Len(rows) > MarkdownMaxRows
                THEN Tpl.mdTruncatedOpen \o NatToStr(Len(rows)) \o Tpl.mdTruncatedClose
                ELSE << >>)

convertToMarkdownBody(c, st, u) ==
    CASE st = "markdown" -> Returned(c)
      [] st = "html" -> Returned(page.turndown \o Trailer(Tpl.ruleSourceOpen, u, Tpl.newline))
      [] st = "json" ->
            LET parsed == JsonParse(c)
            IN  IF parsed.ok
                THEN Returned(Tpl.jsonFenceOpen \o JsonStringify2(parsed.val) \o Tpl.fenceClose
                                \o Trailer(Tpl.mdSourceOpen, u, Tpl.newline))
                ELSE Returned(Tpl.fenceOpen \o c \o Trailer(Tpl.fenceSourceOpen, u, Tpl.newline))
      [] st = "csv" ->
            LET rows == CsvToJson(c)
            IN  IF Len(rows) = 0 THEN Thrown(Msg.csvEmpty)
                ELSE Returned(CsvMarkdownTable(rows) \o Trailer(Tpl.blankSourceOpen, u, Tpl.newline))
      [] st = "xml" ->
            IF xmlParsed.ok
            THEN Returned(Tpl.xmlJsonFenceOpen \o JsonStringify2(xmlParsed.val) \o Tpl.fenceClose
                            \o Tpl.xmlFenceOpen \o c \o Tpl.fenceClose
                            \o Trailer(Tpl.mdSourceOpen, u, Tpl.newline))
            ELSE Returned(Tpl.fenceOpen \o c \o Trailer(Tpl.fenceSourceOpen, u, Tpl.newline))
      [] OTHER ->
            IF Len(c) < FenceLimit
            THEN Returned(Tpl.contentFenceOpen \o c \o Trailer(Tpl.fenceSourceOpen, u, Tpl.newline))
            ELSE Returned(Tpl.contentOpen \o c \o Trailer(Tpl.blankSourceOpen, u, Tpl.newline))

\* mutant: the markdown branch appends the provenance trailer like the others
convertToMarkdown_Trailer(c, st, u) ==
    IF st = "markdown" THEN Returned(c \o Trailer(Tpl.blankSourceOpen, u, Tpl.newline))
    ELSE Rethrow(Msg.markdownConversion, convertToMarkdownBody(c, st, u))

\* mutant: the json branch ends with the ruled trailer of the html branch
convertToMarkdown_Ruled(c, st, u) ==
    IF st = "json" /\ JsonParse(c).ok
    THEN Returned(Tpl.jsonFenceOpen \o JsonStringify2(JsonParse(c).val)
                    \o Trailer(Tpl.ruleSourceOpen, u, Tpl.newline))
    ELSE Rethrow(Msg.markdownConversion, convertToMarkdownBody(c, st, u))

convertToMarkdown(c, st, u) == Rethrow(Msg.markdownConversion, convertToMarkdownBody(c, st, u))

CsvTextTable(rows) ==
    LET headers == RowKeys(rows[1])
        maxRows == Min(Len(rows), TextMaxRows)
    IN  Join(headers, Tpl.sepPipe) \o <<"\n">>
            \o Join([i \in 1..Len(headers) |-> Tpl.dashes], Tpl.sepDashPipe) \o <<"\n">>
            \o Flatten([r \in 1..maxRows |->
                    Join([i \in 1..Len(headers) |-> FieldOrEmpty(rows[r], headers[i])], Tpl.sepPipe)
                        \o <<"\n">>])
            \o (IF Len(rows) > TextMaxRows
                THEN Tpl.textTruncatedOpen \o NatToStr(Len(rows)) \o Tpl.textTruncatedClose
                ELSE << >>)

\* the chain of replace calls that strips Markdown syntax
StripMarkdown(c) ==
    ReplaceAll(ReplaceAll(ReplaceAll(ReplaceAll(ReplaceAll(ReplaceAll(ReplaceAll(ReplaceAll(c,
        "mdHeading"), "mdBold"), "mdItalic"), "mdLink"), "mdImage"), "mdFence"), "mdCode"),
        "mdBullet")

convertToTextBody(c, st, u) ==
    CASE st = "html" ->
            Returned(Trim(ReplaceAll(page.visibleText, "wsRun"))
                        \o Trailer(Tpl.blankSourceOpen, u, << >>))
      [] st = "json" ->
            LET parsed == JsonParse(c)
            IN  IF parsed.ok
                THEN Returned(JsonStringify2(parsed.val) \o Trailer(Tpl.blankSourceOpen, u, << >>))
                ELSE Returned(c \o Trailer(Tpl.blankSourceOpen, u, << >>))
      [] st = "markdown" ->
            Returned(StripMarkdown(c) \o Trailer(Tpl.blankSourceOpen, u, << >>))
      [] st = "csv" ->
            LET rows == CsvToJson(c)
            IN  IF Len(rows) = 0 THEN Returned(Trailer(Tpl.emptyCsv, u, << >>))
                ELSE Returned(CsvTextTable(rows) \o Trailer(Tpl.blankSourceOpen, u, << >>))
      [] st = "xml" ->
            IF xmlParsed.ok
            THEN Returned(JsonStringify2(xmlParsed.val) \o Trailer(Tpl.blankSourceOpen, u, << >>))
            ELSE Returned(c \o Trailer(Tpl.blankSourceOpen, u, << >>))
      [] OTHER -> Returned(c \o Trailer(Tpl.blankSourceOpen, u, << >>))

\* mutant: convertToText reads the module state, it numbers its outputs
convertToText_Counting(c, st, u) ==
    IF convertToTextBody(c, st, u).kind = "ok"
    THEN Returned(convertToTextBody(c, st, u).text \o NatToStr(Len(recentUrls)))
    ELSE Rethrow(Msg.textConversion, convertToTextBody(c, st, u))

\* mutant: the csv branch of convertToText throws on zero rows as the others do
convertToText_EmptyThrows(c, st, u) ==
    IF st = "csv" /\ Len(CsvToJson(c)) = 0 THEN Thrown(Msg.textConversion \o Msg.csvEmpty)
    ELSE Rethrow(Msg.textConversion, convertToTextBody(c, st, u))

convertToText(c, st, u) == Rethrow(Msg.textConversion, convertToTextBody(c, st, u))

-----------------------------------------------------------------------------
(* Inputs of the classifier *)

TypeSample ==
    [fragText |->
        <<"t","e","x","t","/">>,
     textPlain |->
        <<"t","e","x","t","/","p","l","a","i","n">>,
     textHtml |->
        <<"t","e","x","t","/","h","t","m","l">>,
     appJson |->
        <<"a","p","p","l","i","c","a","t","i","o","n","/","j","s","o","n">>]

UrlSample ==
    [base |->
        <<"h",":","/","/","a","/","p">>,
     extTxt |->
        <<".","t","x","t">>,
     pathSeg |->
        <<"/","x">>,
     query |->
        <<"h",":","/","/","a","/","p","?","x","=","<","1",">","&","y">>]

Doc ==
    [fragMemberA |->
        <<"\"","a","\"",":","1">>,
     csvLine |->
        <<"a",",","b","\n">>,
     fragMemberX |->
        <<"\"","x","\"",":","\"","<","?","x","m","l","\"">>,
     csvBlank |->
        <<"a",",","b","\n","\n","a",",","b","\n">>,
     jsonXml |->
        <<"{","\"","x","\"",":","\"","<","?","x","m","l","\"","}">>,
     jsonA |->
        <<"{","\"","a","\"",":","1","}">>,
     bracedProse |->
        <<"{","a","}">>,
     html |->
        <<"<","a",">","<","/","h","t","m","l",">">>,
     xml |->
        <<"<","a","/",">">>,
     csv |->
        <<"a",",","b","\n","a",",","b">>,
     prose |->
        <<"a"," ","b">>,
     fragOne |->
        <<"1">>,
     fragMinusZero |->
        <<"-","0">>,
     fragStringA |->
        <<"\"","a","\"">>,
     fragObjectA |->
        <<"{","\"","a","\"",":","0","}">>,
     dupKey |->
        <<"{","\"","a","\"",":","1",",","\"","a","\"",":","0","}">>,
     indexKey |->
        <<"{","\"","b","\"",":","1",",","\"","0","\"",":","[","1",",","n","u","l","l","]","}">>,
     slash |->
        <<"\"","\\","/","\"">>,
     nested |->
        <<"{","\"","a","\"",":"," ","[","t","r","u","e",","," ","{","\"","b","\"",":"," ","\"","x",
          "\\","n","y","\"","}","]","}">>,
     markdown |->
        <<"#"," ","T","\n","*","*","b","*","*"," ","[","x","]","(","u",")","\n","-"," ",Grave,"c",
          Grave>>,
     image |->
        <<"!","[","a","]","(","u",")"," ","[","x","]","(","v",")">>,
     csvWide |->
        <<"a",",","b","\n","1",",","2",",","3","\n","4","\n">>,
     pipeCsv |->
        <<"a","\n","|","\n">>]

\* a CSV document with the one column a and n data rows, row k holding k
CsvOfRows(n) == <<"a", "\n">> \o Flatten([k \in 1..n |-> NatToStr(k) \o <<"\n">>])

\* the values the inputs are drawn from: concatenations of fragments up to the
\* bounds, and sample values
Inputs ==
    LET typeFrags ==
            {Kw.json, Kw.html, Kw.markdown, Kw.md, Kw.xml, Kw.csv, TypeSample.fragText}
        urlFrags ==
            {Ext.json, Ext.html, Ext.htm, Ext.md, Ext.markdown, Ext.xml, Ext.csv,
             UrlSample.extTxt, UrlSample.pathSeg}
        contentFrags ==
            {<<"{">>, <<"}">>, Doc.fragMemberA, <<"a">>, <<" ">>, <<"<">>, Marker.tagHtmlClose,
             Marker.xmlDecl, Marker.selfClose, Doc.csvLine, <<"\n">>, <<",">>, Doc.fragMemberX}
        jsonFrags ==
            {<<"[">>, <<"]">>, <<" ">>, Doc.fragOne, Doc.fragMinusZero, Doc.fragObjectA}
        jsonSamples ==
            {Doc.fragStringA, Doc.dupKey, Doc.indexKey, Doc.slash, Doc.nested, Doc.jsonXml,
             Doc.bracedProse}
    IN  [servers |-> {"playwright", "static"},
         mediaTypes |->
            Concats(typeFrags, MaxTypeParts) \cup {TypeSample.textPlain, TypeSample.appJson},
         urls |-> {UrlSample.base \o u : u \in Concats(urlFrags, MaxUrlParts)},
         contents |-> Concats(contentFrags, MaxContentParts),
         typeSamples |-> {<< >>, TypeSample.textPlain, TypeSample.textHtml},
         urlSamples |->
            {UrlSample.base, UrlSample.base \o UrlSample.extTxt, UrlSample.base \o Ext.json,
             UrlSample.base \o Ext.html, UrlSample.base \o Ext.csv},
         contentSamples |->
            {<< >>, Doc.prose, Doc.jsonA, Doc.bracedProse, Doc.html, Doc.xml, Doc.csv},
         jsonContents |-> Concats(jsonFrags, MaxJsonParts) \cup jsonSamples,
         markupSamples |-> {<< >>, Doc.prose, Doc.html, Doc.markdown, Doc.image},
         tableSamples |->
            {<< >>, Doc.prose, Doc.csv, Doc.csvBlank, Doc.csvWide, Doc.pipeCsv},
         rowDocs |-> {CsvOfRows(n) : n \in 0..MaxRows},
         longDoc |-> Tpl.markdownHtmlHead \o Tpl.markdownHtmlHead,
         convertUrls |-> {UrlSample.base, UrlSample.query}]

Null == "null"

\* a call of fetchUrlWithPlaywright that has not started: browser, context
\* and page are its locals, 0 while unset
IdleTask == [pc |-> "idle", engine |-> "chromium", browser |-> 0, context |-> 0, page |-> 0,
             ok |-> TRUE]

\* a signal handler that has not run
IdleHandler == [pc |-> "none", context |-> 0, browser |-> 0, contextFailed |-> FALSE]

\* no browser launched, no call in flight, no signal received
PlaywrightIdle ==
    /\ tasks = [t \in 1..MaxTasks |-> IdleTask]
    /\ browsers = << >>
    /\ contexts = << >>
    /\ pages = << >>
    /\ handlers = [h \in 1..MaxSignals |-> IdleHandler]
    /\ exited = FALSE

\* the module state after the module is loaded (nothing recorded, no browser)
\* and no tool call made
ToolIdle ==
    /\ PlaywrightIdle
    /\ recentUrls = << >>
    /\ browserInstance = Null
    /\ browserContext = Null
    /\ request = [tool |-> "none"]
    /\ response = [ok |-> FALSE, screenshot |-> FALSE, message |-> << >>, attempts |-> << >>]
    /\ result = NoResult
    /\ calls = 0
    /\ varied = 0

\* no conversion is under way
ConvIdle ==
    /\ sourceType = "text"
    /\ now = 0
    /\ xmlParsed = XmlError(<< >>)
    /\ page = EmptyPage
    /\ op = "none"
    /\ passes = 0
    /\ out = NoResult

\* the classifier's inputs: every media type against sample URLs and contents,
\* every URL against sample media types and contents, and every content against
\* a media type and URLs that decide nothing
InitDetect ==
    /\ \/ /\ server \in Inputs.servers
          /\ contentType \in Inputs.mediaTypes
          /\ url \in Inputs.urlSamples
          /\ content \in Inputs.contentSamples
       \/ /\ server \in Inputs.servers
          /\ contentType \in Inputs.typeSamples
          /\ url \in Inputs.urls
          /\ content \in Inputs.contentSamples
       \/ /\ server = "playwright"
          /\ contentType = TypeSample.textPlain
          /\ url \in {UrlSample.base, UrlSample.base \o UrlSample.extTxt}
          /\ content \in Inputs.contents
    /\ detectedType = Pending
    /\ ConvIdle
    /\ original = content
    /\ ToolIdle

\* const detectedType = detectContentType(contentType, url, contentText)
Detect ==
    /\ server = "playwright"
    /\ detectedType = Pending
    /\ detectedType' = detectContentType(contentType, url, content)
    /\ UNCHANGED <<payload, conv, toolState>>

\* const detectedType = detectContentType(response, url)
DetectStatic ==
    /\ server = "static"
    /\ detectedType = Pending
    /\ detectedType' = detectContentTypeStatic(contentType, url)
    /\ UNCHANGED <<payload, conv, toolState>>

NextDetect == Detect \/ DetectStatic

SpecDetect == InitDetect /\ [][NextDetect]_vars

-----------------------------------------------------------------------------
(* The converters as a state machine: one conversion of a payload, and the   *)
(* conversion of an output again under the same source family.               *)

InitConvert ==
    /\ server = "playwright"
    /\ contentType = << >>
    /\ detectedType = Pending
    /\ url \in Inputs.convertUrls
    /\ now = 0
    /\ \/ /\ sourceType = "json"
          /\ content \in Inputs.jsonContents
          /\ xmlParsed = XmlError(<< >>)
          /\ page = EmptyPage
       \/ /\ sourceType = "xml"
          /\ content \in {Doc.xml, Doc.prose}
          /\ xmlParsed \in XmlResults
          /\ page = EmptyPage
       \/ /\ sourceType \in {"html", "markdown"}
          /\ content \in Inputs.markupSamples
          /\ xmlParsed = XmlError(<< >>)
          /\ page \in Pages
       \/ /\ sourceType \in {"csv", "text"}
          /\ content \in Inputs.tableSamples
                        \cup (IF sourceType = "text" THEN {Inputs.longDoc}
                              ELSE Inputs.rowDocs)
          /\ xmlParsed = XmlError(<< >>)
          /\ page = EmptyPage
    /\ op = "none"
    /\ passes = 0
    /\ original = content
    /\ out = NoResult
    /\ ToolIdle

\* a converter may be called on the current content: the first call, or the
\* same converter again on its own output
Callable(name) == out.kind = "none" /\ op \in {"none", name}

ConvertToJson ==
    /\ Callable("json")
    /\ out' = convertToJson(content, sourceType, url)
    /\ op' = "json"
    /\ passes' = passes + 1
    /\ UNCHANGED <<payload, detectedType, sourceType, now, xmlParsed, page, original>>
    /\ UNCHANGED toolState

ConvertToHtml ==
    /\ Callable("html")
    /\ out' = convertToHtml(content, sourceType, url)
    /\ op' = "html"
    /\ passes' = passes + 1
    /\ UNCHANGED <<payload, detectedType, sourceType, now, xmlParsed, page, original>>
    /\ UNCHANGED toolState

ConvertToMarkdown ==
    /\ Callable("markdown")
    /\ out' = convertToMarkdown(content, sourceType, url)
    /\ op' = "markdown"
    /\ passes' = passes + 1
    /\ UNCHANGED <<payload, detectedType, sourceType, now, xmlParsed, page, original>>
    /\ UNCHANGED toolState

ConvertToText ==
    /\ Callable("text")
    /\ out' = convertToText(content, sourceType, url)
    /\ op' = "text"
    /\ passes' = passes + 1
    /\ UNCHANGED <<payload, detectedType, sourceType, now, xmlParsed, page, original>>
    /\ UNCHANGED toolState

\* the returned string is handed to the same converter again; the libraries
\* answer anew for the new content, and the clock may have advanced
Reapply ==
    /\ out.kind = "ok"
    /\ passes < MaxPasses
    /\ content' = out.text
    /\ out' = NoResult
    /\ now' \in {now, Min(now + 1, MaxClock)}
    /\ IF sourceType = "xml" /\ out.text # content
       THEN xmlParsed' \in XmlResults ELSE xmlParsed' = xmlParsed
    /\ IF sourceType \in {"html", "markdown"} /\ out.text # content
       THEN page' \in Pages ELSE page' = page
    /\ UNCHANGED <<server, contentType, url, detectedType, sourceType, op, passes, original>>
    /\ UNCHANGED toolState

NextConvert == ConvertToJson \/ ConvertToHtml \/ ConvertToMarkdown \/ ConvertToText \/ Reapply

SpecConvert == InitConvert /\ [][NextConvert]_vars

-----------------------------------------------------------------------------
(* The tool handlers.  A handler awaits the retrieval and the conversion and *)
(* then records and answers; the module state it touches (recentUrls, the    *)
(* cached browser) is read and written between awaits only by synchronous    *)
(* code.  A call is up to three steps: the handler up to the end of the      *)
(* retrieval, the converter it awaits, and the rest of it, which records and *)
(* answers.                                                                  *)

RecentMax == 10

\* the text a tool puts around the converted content, and sample values
ToolTpl ==
    [textDocOpen |->
        <<"<","!","D","O","C","T","Y","P","E"," ","h","t","m","l",">","\n","<","h","t","m","l",">",
          "\n","<","h","e","a","d",">","\n"," "," ","<","m","e","t","a"," ","c","h","a","r","s","e",
          "t","=","\"","U","T","F","-","8","\"",">","\n"," "," ","<","t","i","t","l","e",">","T",
          "e","x","t"," ","c","o","n","t","e","n","t"," ","f","r","o","m"," ">>,
     textDocTitleClose |->
        <<"<","/","t","i","t","l","e",">","\n"," "," ","<","s","t","y","l","e",">","\n"," "," "," ",
          " ","b","o","d","y"," ","{"," ","f","o","n","t","-","f","a","m","i","l","y",":"," ","-",
          "a","p","p","l","e","-","s","y","s","t","e","m",","," ","B","l","i","n","k","M","a","c",
          "S","y","s","t","e","m","F","o","n","t",","," ","'","S","e","g","o","e"," ","U","I","'",
          ","," ","R","o","b","o","t","o",","," ","s","a","n","s","-","s","e","r","i","f",";"," ",
          "l","i","n","e","-","h","e","i","g","h","t",":"," ","1",".","6",";"," ","p","a","d","d",
          "i","n","g",":"," ","2","0","p","x",";"," ","m","a","x","-","w","i","d","t","h",":"," ",
          "8","0","0","p","x",";"," ","m","a","r","g","i","n",":"," ","0"," ","a","u","t","o",";",
          " ","}","\n"," "," "," "," ","p","r","e"," ","{"," ","b","a","c","k","g","r","o","u","n",
          "d","-","c","o","l","o","r",":"," ","#","f","5","f","5","f","5",";"," ","p","a","d","d",
          "i","n","g",":"," ","1","5","p","x",";"," ","b","o","r","d","e","r","-","r","a","d","i",
          "u","s",":"," ","5","p","x",";"," ","o","v","e","r","f","l","o","w","-","x",":"," ","a",
          "u","t","o",";"," ","w","h","i","t","e","-","s","p","a","c","e",":"," ","p","r","e","-",
          "w","r","a","p",";"," ","}","\n"," "," ","<","/","s","t","y","l","e",">","\n","<","/","h",
          "e","a","d",">","\n","<","b","o","d","y",">","\n"," "," ","<","h","1",">","T","e","x","t",
          " ","c","o","n","t","e","n","t"," ","f","r","o","m"," ">>,
     textDocHeadingClose |->
        <<"<","/","h","1",">","\n"," "," ","<","p","r","e",">">>,
     textDocClose |->
        <<"<","/","p","r","e",">","\n","<","/","b","o","d","y",">","\n","<","/","h","t","m","l",
          ">">>,
     contentFrom |->
        <<"#"," ","C","o","n","t","e","n","t"," ","f","r","o","m"," ">>,
     convertedTo |->
        <<" ","c","o","n","v","e","r","t","e","d"," ","t","o"," ">>,
     colonBlank |->
        <<":","\n","\n">>,
     mdShotOpen |->
        <<"\n","\n","#","#"," ","S","c","r","e","e","n","s","h","o","t","\n","\n","!","[","S","c",
          "r","e","e","n","s","h","o","t"," ","o","f"," ">>,
     mdShotMid |->
        <<"]","(","d","a","t","a",":","i","m","a","g","e","/","p","n","g",";","b","a","s","e","6",
          "4",",">>,
     mdShotClose |->
        <<")","\n">>,
     htmlShotOpen |->
        <<"<","h","2",">","S","c","r","e","e","n","s","h","o","t","<","/","h","2",">","<","i","m",
          "g"," ","s","r","c","=","\"","d","a","t","a",":","i","m","a","g","e","/","p","n","g",";",
          "b","a","s","e","6","4",",">>,
     htmlShotMid |->
        <<"\""," ","a","l","t","=","\"","S","c","r","e","e","n","s","h","o","t"," ","o","f"," ">>,
     htmlShotClose |->
        <<"\""," ","s","t","y","l","e","=","\"","m","a","x","-","w","i","d","t","h",":","1","0","0",
          "%",";","\"",">">>,
     bodyClose |->
        <<"<","/","b","o","d","y",">">>,
     textShot |->
        <<"\n","\n","[","S","c","r","e","e","n","s","h","o","t"," ","w","a","s"," ","c","a","p","t",
          "u","r","e","d"," ","b","u","t"," ","c","a","n","n","o","t"," ","b","e"," ","d","i","s",
          "p","l","a","y","e","d"," ","i","n"," ","t","e","x","t"," ","f","o","r","m","a","t","]",
          "\n">>,
     shotOpen |->
        <<"#"," ","S","c","r","e","e","n","s","h","o","t"," ","o","f"," ">>,
     shotMid |->
        <<"\n","\n","!","[","S","c","r","e","e","n","s","h","o","t"," ","o","f"," ">>,
     shotClose |->
        <<")">>,
     errFetch |->
        <<"E","r","r","o","r"," ","f","e","t","c","h","i","n","g"," ","c","o","n","t","e","n","t",
          " ","f","r","o","m"," ","U","R","L",":"," ">>,
     errJson |->
        <<"E","r","r","o","r"," ","c","o","n","v","e","r","t","i","n","g"," ","t","o"," ","J","S",
          "O","N",":"," ">>,
     errHtml |->
        <<"E","r","r","o","r"," ","c","o","n","v","e","r","t","i","n","g"," ","t","o"," ","H","T",
          "M","L",":"," ">>,
     errMarkdown |->
        <<"E","r","r","o","r"," ","c","o","n","v","e","r","t","i","n","g"," ","t","o"," ","M","a",
          "r","k","d","o","w","n",":"," ">>,
     errText |->
        <<"E","r","r","o","r"," ","c","o","n","v","e","r","t","i","n","g"," ","t","o"," ","t","e",
          "x","t",":"," ">>,
     errShot |->
        <<"E","r","r","o","r"," ","c","a","p","t","u","r","i","n","g"," ","s","c","r","e","e","n",
          "s","h","o","t",":"," ">>,
     noShot |->
        <<"F","a","i","l","e","d"," ","t","o"," ","c","a","p","t","u","r","e"," ","s","c","r","e",
          "e","n","s","h","o","t">>,
     httpError |->
        <<"H","T","T","P"," ","e","r","r","o","r","!"," ","s","t","a","t","u","s",":"," ","4","0",
          "4">>,
     launchError |->
        <<"b","r","o","w","s","e","r","T","y","p","e",".","l","a","u","n","c","h",":"," ","f","a",
          "i","l","e","d">>,
     pageError |->
        <<"p","a","g","e",".","g","o","t","o",":"," ","n","e","t",":",":","E","R","R","_","F","A",
          "I","L","E","D">>,
     png |->
        <<"i","V","B","O","R">>,
     scriptTag |->
        <<"<","s","c","r","i","p","t",">">>,
     social |->
        <<"h",":","/","/","t","w","i","t","t","e","r",".","c","o","m","/","p">>,
     scriptUrl |->
        <<"h",":","/","/","a","/","<","s","c","r","i","p","t",">","a","l","e","r","t","(","1",")",
          "<","/","s","c","r","i","p","t",">">>,
     scriptDoc |->
        <<"<","s","c","r","i","p","t",">","a","l","e","r","t","(","1",")","<","/","s","c","r","i",
          "p","t",">">>,
     \* the hosts fetched through the browser when usePlaywright is left out
     socialHosts |->
        {<<"t","w","i","t","t","e","r",".","c","o","m">>,
         <<"f","a","c","e","b","o","o","k",".","c","o","m">>,
         <<"i","n","s","t","a","g","r","a","m",".","c","o","m">>,
         <<"l","i","n","k","e","d","i","n",".","c","o","m">>,
         <<"r","e","d","d","i","t",".","c","o","m">>,
         <<"y","o","u","t","u","b","e",".","c","o","m">>}]

\* mutant: the list is never trimmed
recordUrlFetch_NoPop(list, u, outputFormat, method, timestamp) ==
    <<[url |-> u, timestamp |-> timestamp, outputFormat |-> outputFormat, method |-> method]>>
        \o list

\* recordUrlFetch: unshift the entry, then pop when more than ten are held
recordUrlFetch(list, u, outputFormat, method, timestamp) ==
    LET pushed == <<[url |-> u, timestamp |-> timestamp, outputFormat |-> outputFormat,
                     method |-> method]>> \o list
    IN  IF Len(pushed) > RecentMax THEN SubSeq(pushed, 1, Len(pushed) - 1) ELSE pushed

\* the arguments of a call after the handler's defaults are applied
Tools == {"fetch", "fetch-json", "fetch-html", "fetch-markdown", "fetch-text", "screenshot"}

Call(tool, u, format, usePlaywright, prettyPrint, extract, includeScreenshot, engine) ==
    [tool |-> tool, url |-> u, format |-> format, usePlaywright |-> usePlaywright,
     prettyPrint |-> prettyPrint, extract |-> extract,
     includeScreenshot |-> includeScreenshot, engine |-> engine]

ToolUrls == {UrlSample.base, ToolTpl.scriptUrl}

\* the calls a client can make of a tool; the static build has no browser
\* arguments, and usePlaywright left out is "undefined".  extract is extractData of fetch-json and extractText of fetch-html
Requests(tool) ==
    LET flags == IF server = "playwright" THEN {"undefined", "true", "false"} ELSE {"undefined"}
        shots == IF server = "playwright" THEN BOOLEAN ELSE {FALSE}
        engines == IF server = "playwright" THEN {"chromium", "firefox"} ELSE {"chromium"}
    IN  CASE tool = "fetch" ->
                {Call(tool, u, f, p, TRUE, FALSE, FALSE, e) :
                    u \in ToolUrls, f \in {"auto", "html", "json", "markdown", "text"},
                    p \in flags, e \in engines}
          [] tool = "fetch-json" ->
                {Call(tool, u, "json", p, pp, x, FALSE, "chromium") :
                    u \in ToolUrls, p \in flags, pp \in BOOLEAN,
                    x \in (IF server = "playwright" THEN BOOLEAN ELSE {FALSE})}
          [] tool = "fetch-html" ->
                {Call(tool, u, "html", p, TRUE, x, s, "chromium") :
                    u \in ToolUrls, p \in flags, x \in BOOLEAN, s \in shots}
          [] tool = "fetch-markdown" ->
                {Call(tool, u, "markdown", p, TRUE, FALSE, s, "chromium") :
                    u \in ToolUrls, p \in flags, s \in shots}
          [] tool = "fetch-text" ->
                {Call(tool, u, "text", p, TRUE, FALSE, FALSE, "chromium") :
                    u \in ToolUrls, p \in flags}
          [] tool = "screenshot" ->
                {Call(tool, u, "screenshot", "true", TRUE, FALSE, TRUE, e) :
                    u \in ToolUrls, e \in engines}

\* const shouldUsePlaywright = usePlaywright !== undefined ? usePlaywright : url.includes(...)
shouldUsePlaywright(req) ==
    IF req.usePlaywright # "undefined" THEN req.usePlaywright = "true"
    ELSE \E host \in ToolTpl.socialHosts : Includes(req.url, host)

\* what a retrieval resolves to: a response, or the error it throws
Fetched(contentText, type, shot, libs) ==
    [ok |-> TRUE, contentText |-> contentText, contentType |-> type, screenshot |-> shot,
     page |-> libs.page, xml |-> libs.xml, message |-> << >>, attempts |-> << >>]

FetchError(message) ==
    [ok |-> FALSE, contentText |-> << >>, contentType |-> << >>, screenshot |-> FALSE,
     page |-> EmptyPage, xml |-> XmlError(<< >>), message |-> message, attempts |-> << >>]

\* http: the documents the origin serves, each the declared media type (empty
\* when the header is missing), the body, and what the libraries make of the
\* body.  browser: what the browser hands back, the serialized page with the
\* media type of the document, or the string the evaluated script returned
Served ==
    LET site(type, body, p, x) == [contentType |-> type, contentText |-> body, page |-> p, xml |-> x]
        noXml == XmlError(<< >>)
        \* a page that is a script element: sanitize-html drops it, marked and
        \* turndown keep it
        ScriptPage ==
            [EmptyPage EXCEPT !.markedHtml = ToolTpl.scriptDoc, !.turndown = ToolTpl.scriptDoc]
    IN [http |->
        {site(TypeSample.appJson, Doc.jsonA, EmptyPage, noXml),
         site(TypeSample.appJson, Doc.bracedProse, EmptyPage, noXml),
         site(TypeSample.textHtml, Doc.html, LinkedPage, noXml),
         site(TypeSample.fragText \o Kw.markdown, Doc.markdown, LinkedPage, noXml),
         site(TypeSample.fragText \o Kw.markdown, ToolTpl.scriptDoc, ScriptPage, noXml),
         site(TypeSample.fragText \o Kw.csv, Doc.csvLine, EmptyPage, noXml),
         site(TypeSample.fragText \o Kw.xml, Doc.xml, EmptyPage,
              XmlTree(JObj(<<[k |-> XmlSample.keyA, v |-> JStr(<< >>)]>>))),
         site(TypeSample.fragText \o Kw.xml, Doc.xml, EmptyPage, XmlError(XmlSample.errorMessage)),
         site(TypeSample.textPlain, ToolTpl.scriptDoc, EmptyPage, noXml),
         site(<< >>, Doc.prose, EmptyPage, noXml)},
        browser |->
        {site(TypeSample.textHtml, Doc.html, LinkedPage, noXml),
         site(TypeSample.appJson, Doc.html, EmptyPage, noXml),
         site(TypeSample.textHtml, Doc.jsonA, EmptyPage, noXml),
         site(<< >>, Doc.prose, EmptyPage, noXml)}]

\* what the network and the browser do during one call: the HTTP request (when
\* one is made), and the browser's navigation (when it is used, directly or
\* as the fallback of a failed request)
Worlds(req) ==
    LET https == {FetchError(ToolTpl.httpError)}
                    \cup {Fetched(s.contentText, s.contentType, FALSE, s) : s \in Served.http}
        \* a launch fails only when there is a browser to launch
        pws == (IF browserContext = Null /\ browserInstance = Null
                THEN {FetchError(ToolTpl.launchError)} ELSE {})
                    \cup {FetchError(ToolTpl.pageError)}
                    \cup {Fetched(s.contentText, s.contentType, req.includeScreenshot, s) :
                            s \in Served.browser}
    IN  IF server = "static"
        THEN {[http |-> h, pw |-> FetchError(<< >>)] : h \in https}
        ELSE IF shouldUsePlaywright(req)
        THEN {[http |-> FetchError(<< >>), pw |-> p] : p \in pws}
        ELSE {[http |-> h, pw |-> FetchError(<< >>)] : h \in https \ {FetchError(ToolTpl.httpError)}}
                \cup {[http |-> FetchError(ToolTpl.httpError), pw |-> p] : p \in pws}

\* the browser is used by this call
ViaBrowser(req, w) == server = "playwright" /\ (shouldUsePlaywright(req) \/ ~w.http.ok)

\* mutant: a failed HTTP request is not retried in the browser
fetchUrl_NoFallback(req, w) ==
    IF server = "static" \/ ~shouldUsePlaywright(req)
    THEN [w.http EXCEPT !.attempts = <<"fetch">>]
    ELSE [w.pw EXCEPT !.attempts = <<"Playwright">>]

\* await fetchUrl(url, {usePlaywright, playwrightOptions}): the response, or
\* the error thrown, with the attempts made.  A missing media type reads
\* "text/plain" over HTTP and "text/html" in the browser; the static build
\* keeps it empty and has no browser to fall back to
fetchUrl(req, w) ==
    LET \* fetchUrl(url, {usePlaywright: true, ...}): an error is thrown on
        viaPlaywright(before) ==
            [(IF w.pw.ok /\ w.pw.contentType = << >>
              THEN [w.pw EXCEPT !.contentType = TypeSample.textHtml]
              ELSE w.pw) EXCEPT !.attempts = before \o <<"Playwright">>]
        viaHttp ==
            [(IF w.http.contentType = << >>
              THEN [w.http EXCEPT !.contentType = TypeSample.textPlain]
              ELSE w.http) EXCEPT !.attempts = <<"fetch">>]
    IN  IF server = "static" THEN [w.http EXCEPT !.attempts = <<"fetch">>]
        ELSE IF shouldUsePlaywright(req) THEN viaPlaywright(<< >>)
        ELSE IF w.http.ok THEN viaHttp
        ELSE viaPlaywright(<<"fetch">>)

\* const detectedType = detectContentType(...)
Detected(req, res) ==
    IF server = "static" THEN detectContentTypeStatic(res.contentType, req.url)
    ELSE detectContentType(res.contentType, req.url, res.contentText)

\* mutant: format auto always runs the text converter
ConverterOf_AutoText(req, res, detected) ==
    CASE req.tool = "fetch" ->
            IF req.format \in {"json", "markdown", "html"} THEN req.format ELSE "text"
      [] req.tool = "fetch-json" ->
            IF server = "playwright" /\ req.extract /\ shouldUsePlaywright(req)
                    /\ JsonParse(res.contentText).ok
            THEN "none" ELSE "json"
      [] req.tool = "fetch-html" -> IF req.extract THEN "text" ELSE "html"
      [] req.tool = "fetch-markdown" -> "markdown"
      [] req.tool = "fetch-text" -> "text"
      [] req.tool = "screenshot" -> "none"

\* the converter a call applies to a response of the detected family, or
\* "none" when it applies none
ConverterOf(req, res, detected) ==
    CASE req.tool = "fetch" ->
            LET outputFormat == IF req.format = "auto" THEN detected ELSE req.format
            IN  IF outputFormat \in {"json", "markdown", "html"} THEN outputFormat ELSE "text"
      [] req.tool = "fetch-json" ->
            IF server = "playwright" /\ req.extract /\ shouldUsePlaywright(req)
                    /\ JsonParse(res.contentText).ok
            THEN "none" ELSE "json"
      [] req.tool = "fetch-html" -> IF req.extract THEN "text" ELSE "html"
      [] req.tool = "fetch-markdown" -> "markdown"
      [] req.tool = "fetch-text" -> "text"
      [] req.tool = "screenshot" -> "none"

\* the converter named is applied to the content at hand
Converted(name) ==
    CASE name = "json" -> convertToJson(content, detectedType, url)
      [] name = "html" -> convertToHtml(content, detectedType, url)
      [] name = "markdown" -> convertToMarkdown(content, detectedType, url)
      [] name = "text" -> convertToText(content, detectedType, url)
      [] OTHER -> NoResult

\* String.prototype.replace with a string pattern: the first occurrence only
ReplaceFirst(s, pat, r) ==
    LET at == {i \in 1..(Len(s) - Len(pat) + 1) : SubSeq(s, i, i + Len(pat) - 1) = pat}
    IN  IF at = {} THEN s
        ELSE LET i == CHOOSE j \in at : \A k \in at : j <= k
             IN  SubSeq(s, 1, i - 1) \o r \o SubSeq(s, i + Len(pat), Len(s))

\* the screenshot as the handlers embed it, in Markdown and in HTML
Shot ==
    [md |-> ToolTpl.mdShotOpen \o url \o ToolTpl.mdShotMid \o ToolTpl.png
                \o ToolTpl.mdShotClose,
     html |-> ToolTpl.htmlShotOpen \o ToolTpl.png \o ToolTpl.htmlShotMid \o url
                \o ToolTpl.htmlShotClose]

\* the prefix of the message of the handler's catch block
ErrorPrefix(tool) ==
    CASE tool = "fetch" -> ToolTpl.errFetch
      [] tool = "fetch-json" -> ToolTpl.errJson
      [] tool = "fetch-html" -> ToolTpl.errHtml
      [] tool = "fetch-markdown" -> ToolTpl.errMarkdown
      [] tool = "fetch-text" -> ToolTpl.errText
      [] tool = "screenshot" -> ToolTpl.errShot

\* the error the try block threw, if it threw: the retrieval's, the
\* converter's, or the missing screenshot's
Failure ==
    IF ~response.ok THEN Thrown(response.message)
    ELSE IF out.kind = "error" THEN out
    ELSE IF request.tool = "screenshot" /\ ~response.screenshot THEN Thrown(ToolTpl.noShot)
    ELSE NoResult

\* mutant: the handler has no catch block, the error leaves it
ToolResult_Uncaught(text) ==
    IF Failure.kind = "error"
    THEN [kind |-> "escaped", text |-> Failure.text]
    ELSE Returned(text)

\* return {content: [{type: "text", text}]} or {isError: true, content: [...]}
ToolResult(text) ==
    IF Failure.kind = "error"
    THEN Thrown(ErrorPrefix(request.tool) \o Failure.text)
    ELSE Returned(text)

\* mutant: the fetch tool records the format requested, not the one produced
Recorded_Requested ==
    [outputFormat |-> request.format,
     method |-> IF server = "static" THEN Null
                ELSE IF request.tool = "screenshot" \/ shouldUsePlaywright(request)
                THEN "Playwright"
                ELSE "fetch"]

\* the outputFormat and the method a call records
Recorded ==
    [outputFormat |-> IF request.tool = "fetch" THEN op
                      ELSE IF request.tool = "fetch-json" THEN "json"
                      ELSE request.format,
     method |-> IF server = "static" THEN Null
                ELSE IF request.tool = "screenshot" \/ shouldUsePlaywright(request)
                THEN "Playwright"
                ELSE "fetch"]

\* the call every run may repeat, and the world it meets: fetch-text of the
\* base URL over plain HTTP, answered with prose that declares no media type
Plain ==
    [req |-> Call("fetch-text", UrlSample.base, "text",
                  IF server = "playwright" THEN "false" ELSE "undefined",
                  TRUE, FALSE, FALSE, "chromium"),
     world |-> [http |-> Fetched(Doc.prose, << >>, FALSE,
                                 [page |-> EmptyPage, xml |-> XmlError(<< >>)]),
                pw |-> FetchError(<< >>)]]

\* the calls a client may make now and the worlds they may meet: any call
\* while the run has calls that are not plain to spend, the plain call after
\* that
Offered(tool) ==
    IF varied < MaxVaried
    THEN UNION {{[req |-> r, world |-> w] : w \in Worlds(r)} : r \in Requests(tool)}
    ELSE IF tool = "fetch-text" THEN {Plain} ELSE {}

\* a call has been received and its retrieval has resolved; the handler has
\* not answered yet
Awaiting == request.tool # "none" /\ result.kind = "none"

\* a tool is called and the handler runs up to the end of await fetchUrl(...):
\* the request is made, the browser is launched when it is used and none is
\* cached, and the response (or the error) and the detected family are at hand
Retrieve ==
    /\ ~Awaiting
    /\ calls < MaxCalls
    /\ \E tool \in (IF server = "playwright" THEN Tools ELSE Tools \ {"screenshot"}) :
       \E c \in Offered(tool) : \E res \in {fetchUrl(c.req, c.world)} :
       \E detected \in {IF res.ok THEN Detected(c.req, res) ELSE Pending} :
       LET req == c.req
           w == c.world
       IN
        /\ varied' = IF c = Plain THEN varied ELSE varied + 1
        /\ request' = req
        /\ response' = [ok |-> res.ok, screenshot |-> res.screenshot, message |-> res.message,
                        attempts |-> res.attempts]
        /\ url' = req.url
        /\ now' = now + 1
        \* getBrowser launches the engine only when no browser is cached
        /\ browserInstance' = IF /\ ViaBrowser(req, w)
                                 /\ browserContext = Null /\ browserInstance = Null
                                 /\ w.pw.message # ToolTpl.launchError
                              THEN req.engine ELSE browserInstance
        /\ browserContext' = IF ViaBrowser(req, w) /\ w.pw.message # ToolTpl.launchError
                             THEN "context" ELSE browserContext
        /\ contentType' = res.contentType
        /\ content' = res.contentText
        /\ page' = res.page
        /\ xmlParsed' = res.xml
        /\ detectedType' = detected
        /\ sourceType' = IF res.ok THEN detected ELSE "text"
        /\ op' = IF res.ok THEN ConverterOf(req, res, detected) ELSE "none"
        /\ passes' = 0
        /\ out' = NoResult
        /\ result' = NoResult
    /\ UNCHANGED <<server, original, recentUrls, calls, playwright>>

\* the handler is suspended at await convertTo...: the converter chosen has
\* not returned yet
Converting == Awaiting /\ op # "none" /\ out.kind = "none"

\* the rest of each handler, once the converter (if one is called) has
\* returned or thrown: record the fetch and return, or return the error the
\* catch block caught

Fetch ==
    /\ Awaiting /\ ~Converting /\ request.tool = "fetch"
    /\ \E answer \in {ToolResult(
            ToolTpl.contentFrom \o url \o ToolTpl.convertedTo \o FamilyChars(op)
                \o ToolTpl.colonBlank
                \o (IF op = "html" /\ response.screenshot
                    THEN ReplaceFirst(out.text, ToolTpl.bodyClose,
                                      Shot.html \o ToolTpl.bodyClose)
                    ELSE out.text)
                \o (IF ~response.screenshot \/ op \in {"json", "html"} THEN << >>
                    ELSE IF op = "markdown" THEN Shot.md ELSE ToolTpl.textShot))} :
        /\ result' = answer
        /\ recentUrls' = IF answer.kind = "ok"
                         THEN recordUrlFetch(recentUrls, url, Recorded.outputFormat,
                                             Recorded.method, now)
                         ELSE recentUrls
    /\ calls' = calls + 1
    /\ UNCHANGED <<payload, detectedType, conv>>
    /\ UNCHANGED <<browserInstance, browserContext, request, response, varied, playwright>>

FetchJson ==
    /\ Awaiting /\ ~Converting /\ request.tool = "fetch-json"
    /\ \E answer \in {ToolResult(
            IF op = "none"
            THEN LET parsed == JsonParse(content).val
                 IN  IF request.prettyPrint THEN JsonStringify2(parsed)
                     ELSE JsonStringify(parsed)
            ELSE out.text)} :
        /\ result' = answer
        /\ recentUrls' = IF answer.kind = "ok"
                         THEN recordUrlFetch(recentUrls, url, Recorded.outputFormat,
                                             Recorded.method, now)
                         ELSE recentUrls
    /\ calls' = calls + 1
    /\ UNCHANGED <<payload, detectedType, conv>>
    /\ UNCHANGED <<browserInstance, browserContext, request, response, varied, playwright>>

FetchHtml ==
    /\ Awaiting /\ ~Converting /\ request.tool = "fetch-html"
    /\ \E answer \in {ToolResult(
            LET htmlContent ==
                    IF ~request.extract THEN out.text
                    ELSE IF server = "static"
                    THEN Tpl.preOpen \o escapeHtml(out.text) \o Tpl.preClose
                    ELSE ToolTpl.textDocOpen \o url \o ToolTpl.textDocTitleClose
                            \o escapeHtml(url) \o ToolTpl.textDocHeadingClose
                            \o escapeHtml(out.text) \o ToolTpl.textDocClose
            IN  IF response.screenshot /\ request.includeScreenshot
                THEN ReplaceFirst(htmlContent, ToolTpl.bodyClose,
                                  Shot.html \o ToolTpl.bodyClose)
                ELSE htmlContent)} :
        /\ result' = answer
        /\ recentUrls' = IF answer.kind = "ok"
                         THEN recordUrlFetch(recentUrls, url, Recorded.outputFormat,
                                             Recorded.method, now)
                         ELSE recentUrls
    /\ calls' = calls + 1
    /\ UNCHANGED <<payload, detectedType, conv>>
    /\ UNCHANGED <<browserInstance, browserContext, request, response, varied, playwright>>

FetchMarkdown ==
    /\ Awaiting /\ ~Converting /\ request.tool = "fetch-markdown"
    /\ \E answer \in {ToolResult(
            out.text \o (IF response.screenshot /\ request.includeScreenshot
                         THEN Shot.md ELSE << >>))} :
        /\ result' = answer
        /\ recentUrls' = IF answer.kind = "ok"
                         THEN recordUrlFetch(recentUrls, url, Recorded.outputFormat,
                                             Recorded.method, now)
                         ELSE recentUrls
    /\ calls' = calls + 1
    /\ UNCHANGED <<payload, detectedType, conv>>
    /\ UNCHANGED <<browserInstance, browserContext, request, response, varied, playwright>>

FetchText ==
    /\ Awaiting /\ ~Converting /\ request.tool = "fetch-text"
    /\ \E answer \in {ToolResult(
            out.text)} :
        /\ result' = answer
        /\ recentUrls' = IF answer.kind = "ok"
                         THEN recordUrlFetch(recentUrls, url, Recorded.outputFormat,
                                             Recorded.method, now)
                         ELSE recentUrls
    /\ calls' = calls + 1
    /\ UNCHANGED <<payload, detectedType, conv>>
    /\ UNCHANGED <<browserInstance, browserContext, request, response, varied, playwright>>

Screenshot ==
    /\ Awaiting /\ request.tool = "screenshot"
    /\ \E answer \in {ToolResult(
            ToolTpl.shotOpen \o url \o ToolTpl.shotMid \o url \o ToolTpl.mdShotMid
                \o ToolTpl.png \o ToolTpl.shotClose)} :
        /\ result' = answer
        /\ recentUrls' = IF answer.kind = "ok"
                         THEN recordUrlFetch(recentUrls, url, Recorded.outputFormat,
                                             Recorded.method, now)
                         ELSE recentUrls
    /\ calls' = calls + 1
    /\ UNCHANGED <<payload, detectedType, conv>>
    /\ UNCHANGED <<browserInstance, browserContext, request, response, varied, playwright>>

InitTools ==
    /\ server \in Inputs.servers
    /\ contentType = << >>
    /\ url = << >>
    /\ content = << >>
    /\ detectedType = Pending
    /\ ConvIdle
    /\ original = << >>
    /\ ToolIdle

\* a call is received; the converter its handler awaits returns; the handler
\* answers
NextTools ==
    \/ Retrieve
    \/ Converting /\ ConvertToJson
    \/ Converting /\ ConvertToHtml
    \/ Converting /\ ConvertToMarkdown
    \/ Converting /\ ConvertToText
    \/ Fetch \/ FetchJson \/ FetchHtml \/ FetchMarkdown \/ FetchText \/ Screenshot

SpecTools == InitTools /\ [][NextTools]_vars

-----------------------------------------------------------------------------
(* The browser cache under concurrent calls.  Every await of getBrowser,
   getBrowserContext, fetchUrlWithPlaywright and cleanupResources is a point
   where another call or a signal handler may run; what runs between two
   awaits is one step. *)

Engines == {"chromium", "firefox"}

\* the values browserInstance and browserContext take: the n-th browser
\* launched and the n-th context created
Handles ==
    [browser |-> <<"browser1", "browser2", "browser3", "browser4">>,
     context |-> <<"context1", "context2", "context3", "context4">>]

\* the position of a cached handle in browsers or in contexts
Cached(kind, handle) == CHOOSE i \in 1..Len(Handles[kind]) : Handles[kind][i] = handle

\* what is not part of the browser cache stays as it is
Backstage == <<payload, detectedType, conv, recentUrls, request, response, result, varied>>

\* the call ends by throwing before a page exists
Thrown_NoPage(task) == [task EXCEPT !.pc = "done", !.ok = FALSE]

\* getBrowserContext up to its first await: a cached context is returned and
\* context.newPage() is awaited; else getBrowser returns the cached browser
\* and browser.newContext() is awaited; else the engine's launch() is awaited
getBrowserContext(task, engine) ==
    IF browserContext # Null
    THEN [task EXCEPT !.pc = "newPage", !.engine = engine,
                      !.context = Cached("context", browserContext)]
    ELSE IF browserInstance # Null
    THEN [task EXCEPT !.pc = "newContext", !.engine = engine,
                      !.browser = Cached("browser", browserInstance)]
    ELSE [task EXCEPT !.pc = "launch", !.engine = engine]

\* a tool handler calls fetchUrlWithPlaywright
CallPlaywright ==
    /\ ~exited
    /\ calls < MaxRequests
    /\ \E t \in 1..MaxTasks, engine \in Engines :
        /\ tasks[t].pc = "idle"
        /\ tasks' = [tasks EXCEPT ![t] = getBrowserContext(IdleTask, engine)]
    /\ calls' = calls + 1
    /\ UNCHANGED <<browserInstance, browserContext, browsers, contexts, pages, handlers, exited>>
    /\ UNCHANGED Backstage

\* launch() settles: browserInstance is assigned and returned, and
\* browser.newContext() is awaited; a failed launch throws
Launched ==
    /\ ~exited
    /\ \E t \in 1..MaxTasks :
        /\ tasks[t].pc = "launch"
        /\ \/ /\ browsers' = Append(browsers, [engine |-> tasks[t].engine, open |-> TRUE])
              /\ browserInstance' = Handles.browser[Len(browsers) + 1]
              /\ tasks' = [tasks EXCEPT ![t].pc = "newContext", ![t].browser = Len(browsers) + 1]
           \/ /\ tasks' = [tasks EXCEPT ![t] = Thrown_NoPage(tasks[t])]
              /\ UNCHANGED <<browsers, browserInstance>>
    /\ UNCHANGED <<browserContext, contexts, pages, handlers, exited, calls>>
    /\ UNCHANGED Backstage

\* browser.newContext() settles: browserContext is assigned and returned, and
\* context.newPage() is awaited; it throws on a closed browser
ContextCreated ==
    /\ ~exited
    /\ \E t \in 1..MaxTasks :
        /\ tasks[t].pc = "newContext"
        /\ \/ /\ browsers[tasks[t].browser].open
              /\ contexts' = Append(contexts, [browser |-> tasks[t].browser, open |-> TRUE])
              /\ browserContext' = Handles.context[Len(contexts) + 1]
              /\ tasks' = [tasks EXCEPT ![t].pc = "newPage", ![t].context = Len(contexts) + 1]
           \/ /\ tasks' = [tasks EXCEPT ![t] = Thrown_NoPage(tasks[t])]
              /\ UNCHANGED <<contexts, browserContext>>
    /\ UNCHANGED <<browserInstance, browsers, pages, handlers, exited, calls>>
    /\ UNCHANGED Backstage

\* context.newPage() settles: the try block is entered and page.goto is
\* awaited; it throws on a closed context
PageOpened ==
    /\ ~exited
    /\ \E t \in 1..MaxTasks :
        /\ tasks[t].pc = "newPage"
        /\ \/ /\ contexts[tasks[t].context].open
              /\ pages' = Append(pages, [context |-> tasks[t].context, open |-> TRUE])
              /\ tasks' = [tasks EXCEPT ![t].pc = "try", ![t].page = Len(pages) + 1]
           \/ /\ tasks' = [tasks EXCEPT ![t] = Thrown_NoPage(tasks[t])]
              /\ UNCHANGED pages
    /\ UNCHANGED <<browserInstance, browserContext, browsers, contexts, handlers, exited, calls>>
    /\ UNCHANGED Backstage

\* mutant: the page is closed at the end of the try block only
Finally_OnSuccess(task, ok) ==
    IF ok THEN [task EXCEPT !.pc = "finally", !.ok = TRUE]
    ELSE [task EXCEPT !.pc = "done", !.ok = FALSE]

\* the finally block: page.close() is awaited, whatever the try block did
Finally(task, ok) == [task EXCEPT !.pc = "finally", !.ok = ok]

\* the awaits of the try block settle: navigation, waits, script, screenshot
\* and content; any of them may throw, and all throw on a closed page
TryBlock ==
    /\ ~exited
    /\ \E t \in 1..MaxTasks, ok \in BOOLEAN :
        /\ tasks[t].pc = "try"
        /\ ok => pages[tasks[t].page].open
        /\ tasks' = [tasks EXCEPT ![t] = Finally(tasks[t], ok)]
    /\ UNCHANGED <<browserInstance, browserContext, browsers, contexts, pages, handlers, exited,
                   calls>>
    /\ UNCHANGED Backstage

\* page.close() settles and the call returns or rethrows
PageClosed ==
    /\ ~exited
    /\ \E t \in 1..MaxTasks :
        /\ tasks[t].pc = "finally"
        /\ pages' = [pages EXCEPT ![tasks[t].page].open = FALSE]
        /\ tasks' = [tasks EXCEPT ![t].pc = "done"]
    /\ UNCHANGED <<browserInstance, browserContext, browsers, contexts, handlers, exited, calls>>
    /\ UNCHANGED Backstage

\* the caller has the result or the error
Completed ==
    /\ ~exited
    /\ \E t \in 1..MaxTasks :
        /\ tasks[t].pc = "done"
        /\ tasks' = [tasks EXCEPT ![t] = IdleTask]
    /\ UNCHANGED <<browserInstance, browserContext, browsers, contexts, pages, handlers, exited,
                   calls>>
    /\ UNCHANGED Backstage

\* closing a context closes its pages; closing a browser closes its contexts
ClosePagesOf(closed) ==
    [p \in 1..Len(pages) |->
        IF pages[p].context \in closed THEN [pages[p] EXCEPT !.open = FALSE] ELSE pages[p]]

ContextsOf(b) == {c \in 1..Len(contexts) : contexts[c].browser = b}

\* mutant: a failure while closing the context ends cleanupResources
AfterContext_Uncaught(handler, failed) ==
    IF browserInstance # Null /\ ~failed
    THEN [handler EXCEPT !.pc = "closeBrowser", !.contextFailed = failed,
                         !.browser = Cached("browser", browserInstance)]
    ELSE [handler EXCEPT !.pc = "exited", !.contextFailed = failed]

\* cleanupResources from its second if: a cached browser is closed, whether
\* or not closing the context failed
AfterContext(handler, failed) ==
    IF browserInstance # Null
    THEN [handler EXCEPT !.pc = "closeBrowser", !.contextFailed = failed,
                         !.browser = Cached("browser", browserInstance)]
    ELSE [handler EXCEPT !.pc = "exited", !.contextFailed = failed]

\* SIGINT or SIGTERM: cleanupResources runs up to its first await; with
\* nothing cached it returns and process.exit(0) runs
Signal ==
    /\ ~exited
    /\ \E h \in 1..MaxSignals :
        /\ handlers[h].pc = "none"
        /\ \E next \in {IF browserContext # Null
                         THEN [handlers[h] EXCEPT !.pc = "closeContext",
                                                  !.context = Cached("context", browserContext)]
                         ELSE AfterContext(handlers[h], FALSE)} :
            /\ handlers' = [handlers EXCEPT ![h] = next]
            /\ exited' = (next.pc = "exited")
    /\ UNCHANGED <<tasks, browserInstance, browserContext, browsers, contexts, pages, calls>>
    /\ UNCHANGED Backstage

\* browserContext.close() settles, its error caught and logged;
\* browserContext is set to null and the browser is looked at; with no
\* browser cached cleanupResources returns and process.exit(0) runs
ContextClosed ==
    /\ ~exited
    /\ \E h \in 1..MaxSignals, failed \in BOOLEAN :
        /\ handlers[h].pc = "closeContext"
        /\ IF failed
           THEN UNCHANGED <<contexts, pages>>
           ELSE /\ contexts' = [contexts EXCEPT ![handlers[h].context].open = FALSE]
                /\ pages' = ClosePagesOf({handlers[h].context})
        /\ browserContext' = Null
        /\ \E next \in {AfterContext(handlers[h], failed)} :
            /\ handlers' = [handlers EXCEPT ![h] = next]
            /\ exited' = (next.pc = "exited")
    /\ UNCHANGED <<tasks, browserInstance, browsers, calls>>
    /\ UNCHANGED Backstage

\* browserInstance.close() settles, its error caught and logged;
\* browserInstance is set to null, cleanupResources returns and
\* process.exit(0) runs
BrowserClosed ==
    /\ ~exited
    /\ \E h \in 1..MaxSignals, failed \in BOOLEAN :
        /\ handlers[h].pc = "closeBrowser"
        /\ IF failed
           THEN UNCHANGED <<browsers, contexts, pages>>
           ELSE /\ browsers' = [browsers EXCEPT ![handlers[h].browser].open = FALSE]
                /\ contexts' = [c \in 1..Len(contexts) |->
                        IF c \in ContextsOf(handlers[h].browser)
                        THEN [contexts[c] EXCEPT !.open = FALSE] ELSE contexts[c]]
                /\ pages' = ClosePagesOf(ContextsOf(handlers[h].browser))
        /\ browserInstance' = Null
        /\ handlers' = [handlers EXCEPT ![h].pc = "exited"]
        /\ exited' = TRUE
    /\ UNCHANGED <<tasks, browserContext, calls>>
    /\ UNCHANGED Backstage

InitBrowser ==
    /\ server = "playwright"
    /\ contentType = << >>
    /\ url = << >>
    /\ content = << >>
    /\ detectedType = Pending
    /\ ConvIdle
    /\ original = << >>
    /\ ToolIdle

NextBrowser ==
    \/ CallPlaywright \/ Launched \/ ContextCreated \/ PageOpened \/ TryBlock \/ PageClosed
    \/ Completed
    \/ Signal \/ ContextClosed \/ BrowserClosed

SpecBrowser == InitBrowser /\ [][NextBrowser]_vars

-----------------------------------------------------------------------------
(* The classifier's rules as the specification words them *)

HeaderOrder == <<"json", "html", "markdown", "xml", "csv">>

KeywordsOf(f) ==
    CASE f = "json" -> {Kw.json}
      [] f = "html" -> {Kw.html}
      [] f = "markdown" -> {Kw.markdown, Kw.md}
      [] f = "xml" -> {Kw.xml}
      [] f = "csv" -> {Kw.csv}

SuffixesOf(f) ==
    CASE f = "json" -> {Ext.json}
      [] f = "html" -> {Ext.html, Ext.htm}
      [] f = "markdown" -> {Ext.md, Ext.markdown}
      [] f = "xml" -> {Ext.xml}
      [] f = "csv" -> {Ext.csv}

\* the families whose keyword the media type contains
TypeFamilies(ct) ==
    {HeaderOrder[i] : i \in {j \in 1..Len(HeaderOrder) :
                                \E kw \in KeywordsOf(HeaderOrder[j]) : Includes(ct, kw)}}

\* the families whose suffix ends the URL
UrlFamilies(u) ==
    {HeaderOrder[i] : i \in {j \in 1..Len(HeaderOrder) :
                                \E e \in SuffixesOf(HeaderOrder[j]) : EndsWith(u, e)}}

\* the earliest family of S in the fixed order
Earliest(S) ==
    HeaderOrder[CHOOSE i \in 1..Len(HeaderOrder) :
                    /\ HeaderOrder[i] \in S
                    /\ \A j \in 1..(i - 1) : HeaderOrder[j] \notin S]

Classified == detectedType # Pending

\* neither the media type nor the URL suffix decides
Inconclusive == TypeFamilies(contentType) = {} /\ UrlFamilies(url) = {}

BraceWrapped(c) == StartsWith(Trim(c), <<"{">>) /\ EndsWith(Trim(c), <<"}">>)

ShapeJson(c) == BraceWrapped(c) /\ JsonParse(Trim(c)).ok

ShapeHtml(c) == StartsWith(Trim(c), <<"<">>) /\ Includes(c, Marker.tagHtmlClose)

ShapeXml(c) == Includes(c, Marker.xmlDecl) \/ (Includes(c, <<"<">>) /\ Includes(c, Marker.selfClose))

IsBlank(line) == \A i \in 1..Len(line) : line[i] \in WhiteSpace

\* the tabular shape, over the given lines of the content
ShapeCsvOver(c, lines) ==
    /\ Includes(c, <<",">>) /\ Includes(c, <<"\n">>)
    /\ ~Includes(c, <<"<">>) /\ ~Includes(c, <<"{">>)
    /\ Len(lines) >= 2
    /\ CountChar(lines[1], ",") = CountChar(lines[2], ",")
    /\ CountChar(lines[1], ",") > 0

\* first and second line of the content
ShapeCsvAllLines(c) == ShapeCsvOver(c, Split(c, "\n"))

\* first and second line that is not blank
ShapeCsvNonBlankLines(c) ==
    ShapeCsvOver(c, SelectSeq(Split(c, "\n"), LAMBDA line : ~IsBlank(line)))

\* the sniffing rules after the json rule, in order
LaterRules(c) ==
    IF ShapeHtml(c) THEN "html"
    ELSE IF ShapeXml(c) THEN "xml"
    ELSE IF ShapeCsvNonBlankLines(c) THEN "csv"
    ELSE "text"

-----------------------------------------------------------------------------
(* Claims about detectContentType, checked under SpecDetect *)

\* C1: when the media type contains one of json, html, markdown, md, xml, csv,
\* the family returned is one the media type names, whatever the URL and the
\* content are; text/html with a URL ending in .json is html.
C1_HeaderBeatsSuffix ==
    Classified =>
        /\ (TypeFamilies(contentType) # {} => detectedType \in TypeFamilies(contentType))
        /\ (contentType = TypeSample.textHtml /\ EndsWith(url, Ext.json) => detectedType = "html")

C1_Witness ==
    /\ server = "playwright"
    /\ contentType = TypeSample.textHtml
    /\ url = UrlSample.base \o Ext.json
    /\ content = Doc.jsonA
    /\ detectedType = "html"

\* C2: the classifier returns exactly one of the six families, and returns
\* text when no media-type keyword, no URL suffix and no content shape matches.
C2_Total ==
    Classified =>
        /\ detectedType \in Families
        /\ (/\ Inconclusive
            /\ ~ShapeJson(content) /\ ~ShapeHtml(content)
            /\ ~ShapeXml(content) /\ ~ShapeCsvNonBlankLines(content)
            => detectedType = "text")

C2_Witness ==
    /\ server = "playwright"
    /\ contentType = TypeSample.textPlain
    /\ url = UrlSample.base
    /\ content = <<"a", " ", "a">>
    /\ detectedType = "text"

\* C3: a media type containing several keywords is classified by the earliest
\* one in the order json, html, markdown/md, xml, csv.
C3_HeaderOrder ==
    Classified /\ TypeFamilies(contentType) # {} =>
        /\ detectedType = Earliest(TypeFamilies(contentType))
        /\ ({"html", "xml"} \subseteq TypeFamilies(contentType)
                /\ "json" \notin TypeFamilies(contentType) => detectedType = "html")
        /\ ({"json", "xml"} \subseteq TypeFamilies(contentType) => detectedType = "json")

C3_Witness ==
    /\ contentType = Kw.xml \o Kw.html
    /\ TypeFamilies(contentType) = {"html", "xml"}
    /\ detectedType = "html"

C5_JsonNeedsParse ==
    server = "playwright" /\ Classified /\ Inconclusive =>
        /\ (detectedType = "json" => BraceWrapped(content) /\ JsonParse(Trim(content)).ok)
        /\ (BraceWrapped(content) /\ ~JsonParse(Trim(content)).ok =>
                detectedType # "json" /\ detectedType = LaterRules(content))

C5_Witness ==
    /\ server = "playwright"
    /\ Inconclusive
    /\ content = Doc.bracedProse
    /\ detectedType = "text"

\* C6: sniffing decides only when media type and suffix are inconclusive, in
\* the order json, html, xml, csv: content starting with "<" and containing
\* "</html>" is html even with "<?xml" or "/>" in it; content containing
\* "<?xml", or "<" and "/>", is xml.
C6_SniffOrder ==
    server = "playwright" /\ Classified =>
        /\ (~Inconclusive => detectedType \in TypeFamilies(contentType) \cup UrlFamilies(url))
        /\ (Inconclusive /\ ShapeJson(content) => detectedType = "json")
        /\ (Inconclusive /\ ~ShapeJson(content) /\ ShapeHtml(content) => detectedType = "html")
        /\ (Inconclusive /\ ~ShapeJson(content) /\ ~ShapeHtml(content) /\ ShapeXml(content)
                => detectedType = "xml")

C6_Witness ==
    /\ server = "playwright"
    /\ Inconclusive
    /\ content = Marker.xmlDecl \o Marker.selfClose \o Marker.tagHtmlClose
    /\ detectedType = "html"

\* C7 as stated: with all earlier rules inconclusive, csv is returned exactly
\* when the content has a comma and a newline, no "<" and no "{", at least two
\* lines, and its first and second line carry the same nonzero number of
\* commas; otherwise text.
C7_Original ==
    (/\ server = "playwright" /\ Classified /\ Inconclusive
     /\ ~ShapeJson(content) /\ ~ShapeHtml(content) /\ ~ShapeXml(content))
    => detectedType = (IF ShapeCsvAllLines(content) THEN "csv" ELSE "text")

\* C7 amended: the lines compared are the first and second lines that are not
\* blank (not empty after trimming), and at least two such lines are needed.
C7_CsvNonBlankLines ==
    (/\ server = "playwright" /\ Classified /\ Inconclusive
     /\ ~ShapeJson(content) /\ ~ShapeHtml(content) /\ ~ShapeXml(content))
    => detectedType = (IF ShapeCsvNonBlankLines(content) THEN "csv" ELSE "text")

C7_Witness ==
    /\ server = "playwright"
    /\ Inconclusive
    /\ content = Doc.csvBlank
    /\ detectedType = "csv"

-----------------------------------------------------------------------------
(* Claims about the converters, checked under SpecConvert *)

\* C8: convertToMarkdown with source family markdown returns its content
\* argument unchanged, with no provenance trailer, for every content and URL;
\* applied again to its own output, any number of times, it gives the same
\* string.
C8_MarkdownIdentity ==
    (op = "markdown" /\ sourceType = "markdown" /\ out.kind # "none")
    => out = Returned(original) /\ content = original

C8_Witness ==
    /\ op = "markdown"
    /\ sourceType = "markdown"
    /\ passes = MaxPasses
    /\ original = Doc.markdown
    /\ url = UrlSample.query
    /\ out = Returned(Doc.markdown)

\* the string without its whitespace characters
StripWhiteSpace(s) == SelectSeq(s, LAMBDA ch : ch \notin WhiteSpace)

\* a json-to-json conversion of content that was valid JSON has returned
JsonToJsonDone ==
    /\ op = "json"
    /\ sourceType = "json"
    /\ out.kind # "none"
    /\ JsonParse(original).ok

\* the output re-parses to the value the input parses to, and converting the
\* output again returns it unchanged
RoundTrips ==
    /\ out.kind = "ok"
    /\ JsonParse(out.text).ok
    /\ JsonParse(out.text).val = JsonParse(original).val
    /\ (passes >= 2 => out.text = content)

ParseFailed ==
    \/ sourceType = "json" /\ ~JsonParse(content).ok
    \/ sourceType = "xml" /\ ~xmlParsed.ok

\* the output carries the raw content: as the one string of a JSON object,
\* escaped inside HTML, or verbatim
RawFallback ==
    CASE op = "json" ->
            /\ JsonParse(out.text).ok
            /\ JsonParse(out.text).val = JObj(<<[k |-> Key.content, v |-> JStr(content)]>>)
      [] op = "html" -> Includes(out.text, escapeHtml(content))
      [] OTHER -> Includes(out.text, content)

\* C10: a parse failure of json or xml source content does not propagate out
\* of convertToHtml, convertToMarkdown or convertToText, nor out of the json
\* branch of convertToJson: each returns a string carrying the raw content.
\* The xml branch of convertToJson is the only one of these branches that
\* throws, and it throws exactly when the parse failed.
C10_FailuresContained ==
    (sourceType \in {"json", "xml"} /\ out.kind # "none")
    => /\ out.kind = "error" <=> (op = "json" /\ sourceType = "xml" /\ ~xmlParsed.ok)
       /\ (ParseFailed /\ out.kind = "ok") => RawFallback

C10_Witness ==
    /\ sourceType = "xml"
    /\ ~xmlParsed.ok
    /\ op = "html"
    /\ content = Doc.xml
    /\ out.kind = "ok"
    /\ RawFallback

\* C11: convertToJson with source family json never raises: when the content
\* does not parse as JSON it returns the serialization of the single-field
\* record {content: <raw content>}, whose content field is the raw input.
C11_JsonNeverRaises ==
    (op = "json" /\ sourceType = "json" /\ out.kind # "none")
    => /\ out.kind = "ok"
       /\ ~JsonParse(content).ok
            => out.text = JsonStringify(JObj(<<[k |-> Key.content, v |-> JStr(content)]>>))
       /\ ~JsonParse(content).ok
            => JsonParse(out.text) = [ok |-> TRUE,
                                      val |-> JObj(<<[k |-> Key.content, v |-> JStr(content)]>>)]

C11_Witness ==
    /\ op = "json"
    /\ sourceType = "json"
    /\ content = Doc.bracedProse
    /\ out.kind = "ok"
    /\ JsonParse(out.text).val.members[1].v.s = Doc.bracedProse

\* the string is a JSON document in the form JSON.stringify(value, null, 2)
\* gives it
PrettyPrinted(s) == JsonParse(s).ok /\ s = JsonStringify2(JsonParse(s).val)

\* C12 as stated: every string convertToJson returns, in every source-family
\* branch including the fallback taken on a parse failure, is a JSON document
\* pretty-printed with 2-space indentation.
C12_AlwaysPretty == (op = "json" /\ out.kind = "ok") => PrettyPrinted(out.text)

\* a state in which C12 fails: the json fallback returned a compact document
C12_CompactFallback ==
    /\ op = "json"
    /\ sourceType = "json"
    /\ content = Doc.bracedProse
    /\ out.kind = "ok"
    /\ ~PrettyPrinted(out.text)


\* the number of data rows of a generated row document
RowCount == CHOOSE n \in 0..MaxRows : content = CsvOfRows(n)

\* a converter has returned for a generated CSV document with at least one data row
RowDocConverted(name) ==
    /\ op = name
    /\ sourceType = "csv"
    /\ content \in Inputs.rowDocs
    /\ RowCount >= 1
    /\ out.kind # "none"

OutLines == Split(out.text, "\n")

\* the lines of the output that carry a truncation notice
NoticeLines ==
    SelectSeq(OutLines, LAMBDA l : Includes(l, <<"t","r","u","n","c","a","t","e","d">>))

\* the Markdown table lines whose first cell is a number: the data rows
MarkdownRowLines ==
    SelectSeq(OutLines, LAMBDA l : Len(l) >= 5 /\ l[1] = "|" /\ l[2] = " " /\ IsDigit(l[3]))

\* the text lines made of digits only: the data rows
TextRowLines ==
    SelectSeq(OutLines, LAMBDA l : l # << >> /\ \A i \in 1..Len(l) : IsDigit(l[i]))

\* C13: for CSV input with N data rows, convertToMarkdown emits exactly
\* min(N, 50) data rows in the original order and exactly one truncation notice
\* line when N > 50 and none otherwise; convertToText emits exactly min(N, 25)
\* data rows in the original order and exactly one truncation notice when
\* N > 25 and none otherwise.
C13_RowLimits ==
    /\ RowDocConverted("markdown") =>
          /\ out.kind = "ok"
          /\ MarkdownRowLines = [k \in 1..Min(RowCount, 50) |->
                                    <<"|", " ">> \o NatToStr(k) \o <<" ", "|">>]
          /\ Len(NoticeLines) = (IF RowCount > 50 THEN 1 ELSE 0)
    /\ RowDocConverted("text") =>
          /\ out.kind = "ok"
          /\ TextRowLines = [k \in 1..Min(RowCount, 25) |-> NatToStr(k)]
          /\ Len(NoticeLines) = (IF RowCount > 25 THEN 1 ELSE 0)

\* a 60-row document converted to Markdown: 50 rows and one notice
C13_Witness ==
    /\ RowDocConverted("markdown")
    /\ RowCount = 60
    /\ Len(MarkdownRowLines) = 50
    /\ Len(NoticeLines) = 1

\* a converter has returned or thrown for CSV content that parses to no data row
EmptyCsvConverted(name) ==
    /\ op = name
    /\ sourceType = "csv"
    /\ Len(CsvToJson(content)) = 0
    /\ out.kind # "none"

\* C14: for CSV input that parses to zero data rows, convertToHtml and
\* convertToMarkdown fail with a conversion error, while convertToText on the
\* same input does not fail and returns an explicit empty-data notice followed
\* by the provenance (source URL and conversion time).
C14_EmptyCsvAsymmetry ==
    /\ EmptyCsvConverted("html") =>
          /\ out.kind = "error"
          /\ StartsWith(out.text, Msg.htmlConversion)
          /\ EndsWith(out.text, Msg.csvEmpty)
    /\ EmptyCsvConverted("markdown") =>
          /\ out.kind = "error"
          /\ StartsWith(out.text, Msg.markdownConversion)
          /\ EndsWith(out.text, Msg.csvEmpty)
    /\ EmptyCsvConverted("text") =>
          /\ out.kind = "ok"
          /\ out.text = Tpl.emptyCsv \o url \o Tpl.convertedOpen \o LocaleString(now)

\* the header-only document converted to text
C14_Witness ==
    /\ EmptyCsvConverted("text")
    /\ content = CsvOfRows(0)
    /\ out.kind = "ok"
    /\ StartsWith(out.text, Tpl.emptyCsv)

\* the fetch-html tool has answered a call whose content or origin URL holds
\* the script element
ScriptFetched ==
    /\ request.tool = "fetch-html"
    /\ result.kind = "ok"
    /\ Includes(content, ToolTpl.scriptDoc) \/ Includes(url, ToolTpl.scriptDoc)

\* C15: for every source family, when the content or the origin URL contains
\* the text <script>alert(1)</script>, the HTML produced by convertToHtml and
\* by the fetch-html tool contains no unescaped <script> substring.
C15_NoScriptInHtml ==
    ScriptFetched =>
        /\ ~Includes(result.text, ToolTpl.scriptTag)
        /\ op = "html" => ~Includes(out.text, ToolTpl.scriptTag)

\* fetch-html with extractText writes the origin URL into the title as it is
C15_ScriptInTitle ==
    /\ ScriptFetched
    /\ server = "playwright"
    /\ request.extract
    /\ ~Includes(content, ToolTpl.scriptDoc)
    /\ Includes(result.text, ToolTpl.textDocOpen \o ToolTpl.scriptUrl \o ToolTpl.textDocTitleClose)

\* the object {"a":1} served as application/json has been converted to Markdown
JsonAToMarkdown ==
    /\ op = "markdown"
    /\ content = Doc.jsonA
    /\ contentType = TypeSample.appJson
    /\ out.kind # "none"

\* C16: content {"a":1} with declared media type application/json, converted
\* to markdown, yields exactly: the heading '# JSON Content', a blank line, a
\* fenced json block containing the 2-space pretty-printed object, a blank
\* line, and a provenance trailer of a 'Source: <originUrl>' line and a
\* 'Converted: <timestamp>' line; nothing else.
C16_JsonMarkdownShape ==
    JsonAToMarkdown =>
        /\ detectedType = "json"
        /\ out.kind = "ok"
        /\ Split(out.text, "\n") =
            <<<<"#"," ","J","S","O","N"," ","C","o","n","t","e","n","t">>,
              << >>,
              <<Grave, Grave, Grave, "j", "s", "o", "n">>,
              <<"{">>,
              <<" "," ","\"","a","\"",":"," ","1">>,
              <<"}">>,
              <<Grave, Grave, Grave>>,
              << >>,
              <<"S","o","u","r","c","e",":"," ">> \o url,
              <<"C","o","n","v","e","r","t","e","d",":"," ">> \o LocaleString(now),
              << >>>>

\* the fetch-markdown tool answers with that document
C16_Witness ==
    /\ JsonAToMarkdown
    /\ request.tool = "fetch-markdown"
    /\ result = out
    /\ out.kind = "ok"
    /\ Len(Split(out.text, "\n")) = 11

\* a handler has run to its end
Answered == calls > 0 /\ ~Awaiting

\* C17: every tool handler invocation (fetch, fetch-json, fetch-html,
\* fetch-markdown, fetch-text, screenshot) ends by returning a result: either
\* a success payload or an error-flag result carrying a single message (the
\* tool's prefix and the message of the error caught); no exception escapes
\* the handler.
C17_HandlersAlwaysAnswer ==
    /\ Awaiting => request.tool \in Tools
    /\ Answered => result.kind \in {"ok", "error"}
    /\ (Answered /\ result.kind = "error") =>
            /\ StartsWith(result.text, ErrorPrefix(request.tool))
            /\ Len(result.text) > Len(ErrorPrefix(request.tool))
    /\ (Answered /\ result.kind = "ok") => response.ok /\ out.kind # "error"

\* a converter threw inside the fetch-html handler and the answer is the error result
C17_Witness ==
    /\ request.tool = "fetch-html"
    /\ response.ok
    /\ out.kind = "error"
    /\ result = Thrown(ToolTpl.errHtml \o Msg.htmlConversion \o Msg.csvEmpty)

\* the entries are in the order of their recording, the latest first
NewestFirst(list) ==
    \A i, j \in 1..Len(list) : i < j => list[i].timestamp > list[j].timestamp

\* a step leaves at most ten entries, newest first; a handler that answers
\* with success records its fetch; and a recording puts the new entry first,
\* keeps the others in order and drops the last one exactly when ten were held
RecentStep ==
    /\ Len(recentUrls') <= 10
    /\ NewestFirst(recentUrls')
    /\ (Awaiting /\ result'.kind = "ok") => recentUrls' # recentUrls
    /\ recentUrls' # recentUrls =>
          /\ recentUrls'[1].url = url
          /\ recentUrls'[1].timestamp = now
          /\ Tail(recentUrls') = IF Len(recentUrls) = 10 THEN SubSeq(recentUrls, 1, 9)
                                 ELSE recentUrls

Compact(s) == JsonParse(s).ok /\ s = JsonStringify(JsonParse(s).val)

\* C19: the prettyPrint parameter of fetch-json controls whether the returned
\* JSON is pretty-printed (2-space indentation) or compact, for every source
\* family and retrieval path.
C19_PrettyPrintHonoured ==
    (request.tool = "fetch-json" /\ result.kind = "ok") =>
        IF request.prettyPrint THEN PrettyPrinted(result.text) ELSE Compact(result.text)

\* prettyPrint is false and the object comes back indented
C19_PrettyIgnored ==
    /\ request.tool = "fetch-json"
    /\ ~request.prettyPrint
    /\ content = Doc.jsonA
    /\ detectedType = "json"
    /\ result.kind = "ok"
    /\ PrettyPrinted(result.text)
    /\ ~Compact(result.text)

\* a handler has answered after applying a converter
ConverterApplied == Answered /\ response.ok /\ op # "none"

FetchRetrieved == request.tool = "fetch" /\ response.ok

\* C21: in the fetch tool, format auto means the detected source family is
\* the output format, and an explicit format selects the converter of that
\* format; the converter receives the detected family as its source family.
\* When the output format is not json, markdown or html (detected xml, csv or
\* text under auto), the text converter runs and the format in the heading
\* of the answer and in the history is text.
C21_FetchFormat ==
    FetchRetrieved =>
        /\ op = IF request.format = "auto"
                THEN (IF detectedType \in {"json", "markdown", "html"}
                      THEN detectedType ELSE "text")
                ELSE request.format
        /\ sourceType = detectedType
        /\ out.kind # "none" => out = Converted(op)
        /\ (Answered /\ result.kind = "ok") =>
              /\ StartsWith(result.text,
                            ToolTpl.contentFrom \o url \o ToolTpl.convertedTo
                                \o FamilyChars(op) \o ToolTpl.colonBlank)
              /\ recentUrls[1].outputFormat = op

\* a csv document fetched with format auto went through the text converter
\* and is reported and recorded as text
C21_Witness ==
    /\ FetchRetrieved
    /\ request.format = "auto"
    /\ detectedType = "csv"
    /\ Answered
    /\ result.kind = "ok"
    /\ out = convertToText(content, "csv", url)
    /\ recentUrls[1].outputFormat = "text"

\* convertToText has returned for the Markdown document ![a](u) [x](v)
ImageDocToText ==
    /\ sourceType = "markdown"
    /\ op = "text"
    /\ content = Doc.image
    /\ original = Doc.image
    /\ out.kind = "ok"

\* C22: convertToText with source family markdown applies its substitutions
\* in the listed order and rewrites every markdown image ![alt](url) as
\* [Image: alt] and every link [text](url) as text (url); the image rule is
\* not pre-empted by the link rule or by any earlier substitution.
C22_ImagesRewritten ==
    ImageDocToText =>
        StartsWith(out.text, Tpl.imageOpen \o <<"a", "]", " ", "x", " ", "(", "v", ")">>)

\* the link rule has consumed the image: the output reads !a (u) x (v)
C22_ImageAsLink ==
    /\ ImageDocToText
    /\ StartsWith(out.text, <<"!", "a", " ", "(", "u", ")", " ", "x", " ", "(", "v", ")", "\n">>)
    /\ ~Includes(out.text, Tpl.imageOpen)

\* a tool of the Playwright build has called fetchUrl and fetchUrl has settled
FetchUrlSettled == server = "playwright" /\ request.tool # "none"

\* C23: fetchUrl called without usePlaywright makes one plain HTTP attempt;
\* if that attempt fails it makes exactly one Playwright attempt, and if that
\* fails too the error is thrown to the caller.  Called with usePlaywright it
\* makes exactly one Playwright attempt and no fallback.  It ends after at
\* most two attempts.
C23_AtMostTwoAttempts ==
    FetchUrlSettled =>
        /\ Len(response.attempts) \in {1, 2}
        /\ (shouldUsePlaywright(request) \/ request.tool = "screenshot")
                <=> response.attempts = <<"Playwright">>
        /\ (~shouldUsePlaywright(request) /\ request.tool # "screenshot") =>
                /\ response.attempts \in {<<"fetch">>, <<"fetch", "Playwright">>}
                /\ response.attempts = <<"fetch">> => response.ok
                /\ ~response.ok =>
                        /\ response.attempts = <<"fetch", "Playwright">>
                        /\ response.message \in {ToolTpl.launchError, ToolTpl.pageError}

\* the HTTP request and the browser both failed: two attempts, and the
\* browser's error is the one the handler reports
C23_Witness ==
    /\ FetchUrlSettled
    /\ ~shouldUsePlaywright(request)
    /\ response.attempts = <<"fetch", "Playwright">>
    /\ ~response.ok
    /\ Answered
    /\ result = Thrown(ErrorPrefix(request.tool) \o ToolTpl.pageError)

\* the output format a tool produces: the converter's of the fetch tool, the
\* tool's own of the others
Produced ==
    CASE request.tool = "fetch" -> op
      [] request.tool = "fetch-json" -> "json"
      [] request.tool = "fetch-html" -> "html"
      [] request.tool = "fetch-markdown" -> "markdown"
      [] request.tool = "fetch-text" -> "text"
      [] request.tool = "screenshot" -> "screenshot"

\* a handler that answers with an error leaves the history as it is; one that
\* answers with success has retrieved and converted, and puts one entry in
\* front, with the URL of the call and the format produced; no other step
\* writes the history
HistoryStep ==
    IF Awaiting /\ ~Awaiting'
    THEN /\ result'.kind = "error" => recentUrls' = recentUrls
         /\ result'.kind = "ok" =>
              /\ response.ok /\ out.kind # "error"
              /\ Len(recentUrls') = Min(Len(recentUrls) + 1, RecentMax)
              /\ recentUrls'[1].url = request.url
              /\ recentUrls'[1].outputFormat = Produced
              /\ Tail(recentUrls') = SubSeq(recentUrls, 1, Len(recentUrls') - 1)
    ELSE recentUrls' = recentUrls

\* C24: a tool call that returns an error result leaves recentUrls unchanged,
\* and a tool call that returns a success result adds exactly one entry, at
\* the front, carrying the call's URL and the output format actually
\* produced; history is written only after retrieval and conversion have both
\* succeeded.
C24_HistoryOnSuccessOnly == [][HistoryStep]_vars

\* after a recorded call, a call whose converter threw has been answered with
\* an error and the history still holds the one entry
C24_Witness ==
    /\ Answered
    /\ calls >= 2
    /\ response.ok
    /\ out.kind = "error"
    /\ result.kind = "error"
    /\ Len(recentUrls) = calls - 1

\* C25: the method stored in a history entry is Playwright exactly when the
\* content of that request was retrieved through the Playwright path, and
\* fetch exactly when it was retrieved by the plain HTTP request, including
\* requests where the plain attempt failed and fetchUrl fell back to
\* Playwright.
C25_MethodIsPath ==
    (server = "playwright" /\ Answered /\ result.kind = "ok") =>
        recentUrls[1].method =
            IF response.attempts[Len(response.attempts)] = "Playwright"
            THEN "Playwright" ELSE "fetch"

\* the HTTP request failed, the browser retrieved the content, and the entry
\* says fetch
C25_FallbackRecordedAsFetch ==
    /\ server = "playwright"
    /\ Answered
    /\ result.kind = "ok"
    /\ response.attempts = <<"fetch", "Playwright">>
    /\ recentUrls[1].timestamp = now
    /\ recentUrls[1].url = request.url
    /\ recentUrls[1].method = "fetch"

\* the tags formatJsonForHtml writes: the five opening tags and the closing tag
SpanTags ==
    {SubSeq(Span.keyOpen, 1, Len(Span.keyOpen) - 1),
     SubSeq(Span.stringOpen, 1, Len(Span.stringOpen) - 1),
     Span.numberOpen,
     Span.booleanOpen,
     <<"<","s","p","a","n"," ","c","l","a","s","s","=","\"","j","s","o","n","-","n","u","l","l",
       "\"",">">>,
     Span.close}

\* s with every occurrence of a span tag removed
WithoutSpans(s) ==
    LET inTag == {k \in 1..Len(s) :
                    \E t \in SpanTags :
                        \E j \in 1..k : j + Len(t) > k /\ HasAt(s, j, t)}
        kept == (1..Len(s)) \ inTag
        at(i) == CHOOSE k \in kept : Cardinality({x \in kept : x <= k}) = i
    IN  [i \in 1..Cardinality(kept) |-> s[at(i)]]

\* the JSON viewer document has been produced from content that parses
JsonViewer ==
    /\ op = "html"
    /\ sourceType = "json"
    /\ out.kind = "ok"
    /\ HasAt(out.text, 1, Tpl.jsonHtmlHead)

\* what stands between the head and the footer of the viewer document
JsonViewerBody ==
    SubSeq(out.text, Len(Tpl.jsonHtmlHead) + 1,
           Len(out.text) - Len(Footer(Tpl.preSourceOpen, url)))

\* C30: formatJsonForHtml escapes &, < and > of the JSON text and wraps each
\* key, string, number, boolean and null token in exactly one span of the
\* matching class; a later substitution never rewrites the span markup
\* inserted by an earlier one, so the emitted span tags stay well-formed and
\* the text with the spans removed equals the escaped JSON.
C30_SpansWellFormed ==
    JsonViewer =>
        WithoutSpans(JsonViewerBody)
            = ReplaceChar(ReplaceChar(ReplaceChar(JsonStringify2(JsonParse(content).val),
                                                  "&", Ent.amp), "<", Ent.lt), ">", Ent.gt)

\* the string substitution has wrapped the class name of a key span
C30_KeySpanRewritten ==
    /\ JsonViewer
    /\ \E j \in 1..Len(JsonViewerBody) :
            HasAt(JsonViewerBody, j,
                  <<"c","l","a","s","s","=">> \o Span.stringOpen)

\* no signal has been received: no cleanup has begun
NoCleanup == \A h \in 1..MaxSignals : handlers[h].pc = "none"

\* C26: across any interleaving of concurrent tool calls, getBrowser launches
\* at most one browser and getBrowserContext creates at most one context
\* between two cleanups: every request that uses Playwright shares the single
\* cached browserInstance and browserContext, and no launched browser or
\* created context is left unreferenced.
C26_OneBrowserOneContext ==
    NoCleanup =>
        /\ Len(browsers) <= 1
        /\ Len(contexts) <= 1
        /\ \A b \in 1..Len(browsers) : browserInstance = Handles.browser[b]
        /\ \A c \in 1..Len(contexts) : browserContext = Handles.context[c]

\* two calls found the cache empty: two browsers are open, each with a
\* context, and the cache refers to the second of each
C26_SecondLaunch ==
    /\ NoCleanup
    /\ Len(browsers) = 2
    /\ Len(contexts) = 2
    /\ \A b \in 1..Len(browsers) : browsers[b].open
    /\ \A c \in 1..Len(contexts) : contexts[c].open /\ contexts[c].browser = c
    /\ browserInstance = Handles.browser[2]
    /\ browserContext = Handles.context[2]

\* C27: every page opened by fetchUrlWithPlaywright is closed before the call
\* completes, on the success path and on every failure path; after any
\* sequence of completed requests no page opened by them remains open.
C27_PagesClosed ==
    \A p \in 1..Len(pages) :
        pages[p].open =>
            \E t \in 1..MaxTasks : tasks[t].page = p /\ tasks[t].pc \in {"try", "finally"}

\* a call whose try block threw has completed, with no cleanup begun, and its
\* page is closed
C27_Witness ==
    /\ NoCleanup
    /\ \E t \in 1..MaxTasks :
        /\ tasks[t].pc = "done"
        /\ ~tasks[t].ok
        /\ tasks[t].page # 0
        /\ ~pages[tasks[t].page].open

\* what a step of signal handler h does to the cache and to the process
CleanupStep(h) ==
    LET before == handlers[h]
        after == handlers'[h]
    IN  /\ (before.pc = "none" /\ after.pc # "none") =>
            /\ browserContext # Null => after.pc = "closeContext"
            /\ UNCHANGED <<browsers, contexts, browserInstance, browserContext>>
        /\ (before.pc = "closeContext" /\ after.pc # "closeContext") =>
            /\ browserContext' = Null
            /\ UNCHANGED <<browsers, browserInstance>>
            /\ browserInstance # Null => after.pc = "closeBrowser"
        /\ (before.pc = "closeBrowser" /\ after.pc # "closeBrowser") =>
            /\ before.context # 0 =>
                    before.contextFailed \/ ~contexts[before.context].open
            /\ browserInstance' = Null
        /\ (after.pc = "exited" /\ before.pc # "exited") =>
            /\ before.pc = "none" => browserContext = Null /\ browserInstance = Null
            /\ before.pc = "closeContext" => browserInstance = Null
            /\ browserInstance' = Null

CleanupSteps ==
    /\ \A h \in 1..MaxSignals : CleanupStep(h)
    /\ (exited' /\ ~exited) =>
            \E h \in 1..MaxSignals : handlers'[h].pc = "exited" /\ handlers[h].pc # "exited"
    /\ exited => UNCHANGED vars
    /\ \A b \in 1..Len(browsers) :
            (browsers[b].open /\ ~browsers'[b].open) =>
                \E h \in 1..MaxSignals :
                    handlers[h].pc = "closeBrowser" /\ handlers[h].browser = b

C29_EngineServed ==
    \A t \in 1..MaxTasks :
        tasks[t].pc \in {"try", "finally"} =>
            browsers[contexts[tasks[t].context].browser].engine = tasks[t].engine

\* the second of two calls, made after the first has completed, asks for
\* firefox and its page is in the first call's chromium browser
C29_ServedByCachedEngine ==
    /\ calls = 2
    /\ Len(browsers) = 1
    /\ browsers[1].engine = "chromium"
    /\ \E t \in 1..MaxTasks :
        /\ tasks[t].pc = "try"
        /\ tasks[t].engine = "firefox"
        /\ contexts[tasks[t].context].browser = 1
        /\ \A o \in 1..MaxTasks : o # t => tasks[o].pc = "idle"
=============================================================================
